---- MODULE Spec2Model ----
(***************************************************************************)
(* Request routing and engine lifecycle of the neutree serving layer:      *)
(*   - the staged engine (stageable_engine.py) and the pool manager that   *)
(*     drives it (fast-vllm/v2/app.py);                                    *)
(*   - the consistent-hashing-with-bounded-loads replica scheduler         *)
(*     (_replica_scheduler/chwbl_scheduler.py).                            *)
(* Time is an integer wall clock.  None is NoEngine / NoGpu / NoTime.      *)
(***************************************************************************)
EXTENDS Integers, Sequences, FiniteSets, TLC

\* ------------------------------------------------------------------ bounds
MaxEngines == 3      \* instance_counter is capped here
NumRequests == 2     \* concurrent client calls on the pool manager
TotalGpus == 1       \* pool_config['total_gpus']
MaxTime == 6         \* the wall clock stops here
MaxDelay == 1        \* cooldown_delay and recycle_delay are drawn from 1..MaxDelay

EngineIds == 1..MaxEngines
Requests == 1..NumRequests
Slots == 0..(TotalGpus - 1)

NoEngine == 0
NoGpu == -1
AllocRaised == -2
NoTime == 0

\* Router bounds and configuration.
VirtualNodes == 2    \* virtual_nodes_per_replica
MaxLoad == 2         \* queue lengths reported to the router are in 0..MaxLoad
MaxMessages == 3     \* messages lists have up to MaxMessages elements
MaxUserMessages == 2 \* max_user_messages_for_cache is drawn from 0..MaxUserMessages
MaxUpdates == 1        \* writing calls followed statement by statement
MaxPoints == 8        \* rings with more than MaxPoints entries in _sorted_hashes are not explored
NumProcesses == 2    \* processes that call get_available_port
NumPorts == 2        \* the port range is port_range_start .. port_range_start + NumPorts - 1
LoadFactorNum == 5   \* load_factor = 1.25 = LoadFactorNum / LoadFactorDen
LoadFactorDen == 4
NoLoad == -1         \* the queue-length cache has no entry (get returns None)
Pids == 1..NumProcesses
Ports == 1..NumPorts
NoPid == 0           \* no process: the port is not in the record, the lock is free
ReplicaIds == {"A", "B", "C"}

\* ------------------------------------------------------------------ EngineStage
UNINITIALIZED == "uninitialized"
STAGE1_READY == "stage1_ready"
STAGE2_ACTIVE == "stage2_active"
STAGE2_COOLDOWN == "stage2_cooldown"
ERROR == "error"
EngineStage == {UNINITIALIZED, STAGE1_READY, STAGE2_ACTIVE, STAGE2_COOLDOWN, ERROR}

VARIABLES
    now,                  \* time.time()
    model_task,           \* current_model_config['task']
    cooldown_delay,       \* pool_config['cooldown_delay']
    recycle_delay,        \* pool_config['recycle_delay']
    gpu_allocation,       \* slot -> instance id or NoEngine
    instances,            \* keys of self.instances (insertion order = id order)
    instance_counter,
    stage,                \* engine.stage, per engine
    model_executor,       \* engine.model_executor is set, per engine
    has_engine,           \* the instance still has its engine attribute
    serving_components,   \* "None" | "empty" | "built", per instance
    gpu_id,               \* instance.gpu_id
    active_requests,      \* instance.active_requests
    cooldown_start_time,  \* instance._cooldown_start_time
    last_request_at,      \* metrics.last_request_at
    stage2_completed_at,  \* metrics.stage2_completed_at
    boot_pc,              \* the _initialize_first_instance task
    mon_pc,               \* the _monitor_lifecycle task: "sleep" | "recycling"
    mon_cur,              \* the instance whose _recycle_instance is suspended
    mon_rest,             \* the rest of the loop's snapshot list
    mon_time,             \* current_time of the loop iteration
    pc,                   \* per client call: "ready" | "serving" | "returned"
    req_inst,             \* the instance the call holds
    resp                  \* the call's result

poolVars == <<now, model_task, cooldown_delay, recycle_delay, gpu_allocation,
              instances, instance_counter, stage, model_executor, has_engine,
              serving_components, gpu_id, active_requests, cooldown_start_time,
              last_request_at, stage2_completed_at, boot_pc, mon_pc, mon_cur,
              mon_rest, mon_time, pc, req_inst, resp>>

\* The CHWBL replica scheduler (chwbl_scheduler.py).
VARIABLES
    replicas,             \* _replicas: the ids of the replica map
    hash_to_replica_id,   \* _hash_to_replica_id: ring point -> replica id
    sorted_hashes,        \* _sorted_hashes: the ring points, sorted
    queue_len_cache,      \* _replica_queue_len_cache: id -> load, NoLoad if absent
    route_key,            \* the cache key of the last routing decision
    route_result          \* what the last routing decision returned or raised

routerVars == <<replicas, hash_to_replica_id, sorted_hashes, queue_len_cache,
                route_key, route_result>>

\* Calls in progress or last made: update_replicas run statement by statement on
\* one thread while another thread routes; the static-hash scheduler and router
\* (static_hash_scheduler.py, static_hash_request_route.py); _extract_cache_key.
VARIABLES
    update_call,          \* the update_replicas or on_replica_actor_died call in
                          \* progress, if any: its position and its local variables
    static_replica_list,  \* StaticHashReplicaScheduler._replica_list (ids)
    static_call,          \* the last static-hash routing call and its result
    key_call,             \* the inputs of _extract_cache_key and, once computed, the key
    completed_call,       \* the on_request_completed call in progress, if any: the
                          \* replica and the load it has read
    route_call            \* the routing decision in progress, if any: its position
                          \* and its local variables

callVars == <<update_call, static_replica_list, static_call, key_call, completed_call,
              route_call>>

\* The port allocator (_util/port.py) and the processes that call it.
VARIABLES
    port_file,            \* allocated_ports.json: whether it exists, its content and
                          \* the order of its entries
    port_lock,            \* port_lock: whether it exists, and the pid holding the flock
    port_proc,            \* per process: alive, position in get_available_port, the
                          \* dict it read with the order of its entries, the entries
                          \* still to test, the port at hand, the outcome of its last
                          \* call, ports returned
    port_bound            \* per port, the process that has bound it (NoPid: none)

portVars == <<port_file, port_lock, port_proc, port_bound>>

nonPoolVars == <<routerVars, callVars, portVars>>
nonRouterVars == <<poolVars, callVars, portVars>>

vars == <<poolVars, routerVars, callVars, portVars>>

\* ------------------------------------------------------------------ helpers
Min(S) == CHOOSE x \in S : \A y \in S : x <= y

\* The values of a dict in insertion order; ids are handed out in increasing
\* order, so insertion order is id order.
RECURSIVE InOrder(_)
InOrder(S) == IF S = {} THEN <<>> ELSE <<Min(S)>> \o InOrder(S \ {Min(S)})

NoResp == [code |-> 0, type |-> "none", message |-> "none"]
OkResp == [code |-> 200, type |-> "ok", message |-> "result"]
CancelledResp == [code |-> 0, type |-> "cancelled", message |-> "CancelledError"]
ErrorResponse(m, t, c) == [code |-> c, type |-> t, message |-> m]

\* ------------------------------------------------------------------ engine
\* StageableLLMEngine.initialize_stage1: refused unless UNINITIALIZED; an
\* exception while building the tokenizer or executor leaves the stage as is.
initialize_stage1(s, ok) ==
    IF s # UNINITIALIZED THEN s
    ELSE IF ok THEN STAGE1_READY ELSE s

\* A variant whose exception handler does not record the failure in the stage.
initialize_stage2_KeepsStage(s, executor, ok) ==
    IF s = STAGE1_READY /\ executor /\ ok THEN STAGE2_ACTIVE ELSE s

\* StageableLLMEngine.initialize_stage2: refused unless STAGE1_READY; the
\* assert on model_executor and the load run inside the try, whose handler
\* sets ERROR.
initialize_stage2(s, executor, ok) ==
    IF s # STAGE1_READY THEN s
    ELSE IF executor /\ ok THEN STAGE2_ACTIVE ELSE ERROR

\* A variant without the stage test.
mark_cooldown_Unguarded(s) == STAGE2_COOLDOWN

mark_cooldown(s) == IF s = STAGE2_ACTIVE THEN STAGE2_COOLDOWN ELSE s

can_accept_requests(s) == s \in {STAGE2_ACTIVE, STAGE2_COOLDOWN}

is_ready_for_activation(s) == s = STAGE1_READY

\* The stage check that opens AsyncEngineWrapper.generate and .encode.
WrapperAccepts(s) == s = STAGE2_ACTIVE

\* ------------------------------------------------------------------ pool manager
ComponentOf(kind) ==
    CASE kind = "generate" -> "chat"
      [] kind = "generate_embeddings" -> "embedding"
      [] kind = "rerank" -> "score"

\* _create_serving_components: 'models' plus the component of the model's task.
ComponentsFor(task) ==
    {"models"} \cup (IF task \in {"text-generation", "chat"} THEN {"chat"} ELSE {})
               \cup (IF task = "text-embedding" THEN {"embedding"} ELSE {})
               \cup (IF task \in {"text-rerank", "score"} THEN {"score"} ELSE {})

Components(sc) == IF sc = "built" THEN ComponentsFor(model_task) ELSE {}

\* _allocate_gpu on a given allocation map and instance map.
allocate_gpu(alloc, insts, he, allow_shared) ==
    LET free == {g \in Slots : alloc[g] = NoEngine}
        cand == {g \in Slots : alloc[g] \in insts
                               /\ (~he[alloc[g]] \/ stage[alloc[g]] = STAGE2_COOLDOWN)}
    IN  IF free # {} THEN Min(free)
        ELSE IF allow_shared /\ cand # {}
             THEN IF ~he[alloc[Min(cand)]] THEN AllocRaised ELSE Min(cand)
             ELSE NoGpu

release_gpu(alloc, g) == IF g # NoGpu THEN [alloc EXCEPT ![g] = NoEngine] ELSE alloc

has_active_requests(e) == active_requests[e] > 0

\* A variant that measures the idle time from the activation only.
should_trigger_cooldown_SinceActivation(e, current_time) ==
    /\ ~has_active_requests(e)
    /\ current_time - stage2_completed_at[e] > cooldown_delay

should_trigger_cooldown(e, current_time) ==
    LET last_activity ==
            IF last_request_at[e] # NoTime THEN last_request_at[e]
            ELSE IF stage2_completed_at[e] # NoTime THEN stage2_completed_at[e]
            ELSE current_time
    IN  /\ ~has_active_requests(e)
        /\ current_time - last_activity > cooldown_delay

\* current_time - None raises TypeError.
should_recycle_raises(e) ==
    ~has_active_requests(e) /\ cooldown_start_time[e] = NoTime

should_recycle(e, current_time) ==
    /\ ~has_active_requests(e)
    /\ cooldown_start_time[e] # NoTime
    /\ current_time - cooldown_start_time[e] > recycle_delay

\* The body of the for loop of _monitor_lifecycle over `items`, up to its first
\* suspension (a recycle) or exception (an instance without engine).
LoopStops(e, t) ==
    \/ ~has_engine[e]
    \/ stage[e] = STAGE2_COOLDOWN /\ (should_recycle_raises(e) \/ should_recycle(e, t))

StopIdx(items, t) ==
    IF \E i \in 1..Len(items) : LoopStops(items[i], t)
    THEN Min({i \in 1..Len(items) : LoopStops(items[i], t)})
    ELSE Len(items) + 1

Cooled(items, t) ==
    {items[i] : i \in {j \in 1..(StopIdx(items, t) - 1) :
                         /\ stage[items[j]] = STAGE2_ACTIVE
                         /\ should_trigger_cooldown(items[j], t)}}

LoopSuspends(items, t) ==
    /\ StopIdx(items, t) <= Len(items)
    /\ has_engine[items[StopIdx(items, t)]]
    /\ should_recycle(items[StopIdx(items, t)], t)

\* _get_available_instance, without the activation.
AvailableActive == {e \in instances : stage[e] = STAGE2_ACTIVE}
\* A variant of the cooldown list that also takes engines in ERROR.
AvailableCooldown_WithError ==
    {e \in instances : stage[e] \in {STAGE2_COOLDOWN, ERROR}}

AvailableCooldown == {e \in instances : stage[e] = STAGE2_COOLDOWN}
Stage1Ready == {e \in instances : stage[e] = STAGE1_READY}

\* min(..., key=active_requests): the first minimal one in dict order.
LeastLoaded(S) ==
    CHOOSE e \in S : \A f \in S :
        \/ active_requests[e] < active_requests[f]
        \/ active_requests[e] = active_requests[f] /\ e <= f

NeedsActivation == AvailableActive = {} /\ AvailableCooldown = {} /\ Stage1Ready # {}

Candidate ==
    IF AvailableActive # {} THEN LeastLoaded(AvailableActive)
    ELSE IF AvailableCooldown # {} THEN LeastLoaded(AvailableCooldown)
    ELSE IF Stage1Ready # {} THEN Min(Stage1Ready)
    ELSE NoEngine

\* What the handlers read of a payload: whether it is a dict, its "model" field
\* (absent, a served model name, another name), and whether the request object
\* (ChatCompletionRequest, EmbeddingRequest, RerankRequest) can be built from it.
Payloads ==
    {[is_dict |-> FALSE, model |-> "absent", valid |-> FALSE]}
    \cup [is_dict : {TRUE}, model : {"absent", "known", "unknown"}, valid : BOOLEAN]

Kinds == {"generate", "generate_embeddings", "rerank"}

\* ------------------------------------------------------------------ Init
RouterIdle ==
    /\ replicas = {}
    /\ hash_to_replica_id = <<>>
    /\ sorted_hashes = <<>>
    /\ queue_len_cache = [id \in ReplicaIds |-> NoLoad]
    /\ route_key = "none"
    /\ route_result = "idle"

\* No update_replicas or on_replica_actor_died call in progress, none made yet.
NoUpdate ==
    [pc |-> "idle", op |-> "none", list |-> <<>>, todo |-> {}, points |-> <<>>,
     idx |-> 0, i |-> 0, calls |-> 0]

\* No routing decision in progress.
NoRoute ==
    [pc |-> "idle", key |-> "none", idx |-> 0, hash |-> 0, rid |-> "none",
     checked |-> {}, default |-> "None", n |-> 0, todo |-> {}, resized |-> FALSE,
     load_snapshot |-> [id \in {} |-> 0], atomic |-> "none"]

CallsIdle ==
    /\ update_call = NoUpdate
    /\ static_replica_list = <<>>
    /\ static_call = [op |-> "none"]
    /\ key_call = [pc |-> "idle"]
    /\ completed_call = [pc |-> "idle", id |-> "none", current_load |-> NoLoad]
    /\ route_call = NoRoute

\* The pool manager as constructed.
PoolConstructed ==
    /\ now = 1
    /\ model_task \in {"text-generation", "text-embedding"}
    /\ cooldown_delay \in 1..MaxDelay
    /\ recycle_delay \in 1..MaxDelay
    /\ gpu_allocation = [g \in Slots |-> NoEngine]
    /\ instances = {}
    /\ instance_counter = 0
    /\ stage = [e \in EngineIds |-> UNINITIALIZED]
    /\ model_executor = [e \in EngineIds |-> FALSE]
    /\ has_engine = [e \in EngineIds |-> FALSE]
    /\ serving_components = [e \in EngineIds |-> "None"]
    /\ gpu_id = [e \in EngineIds |-> NoGpu]
    /\ active_requests = [e \in EngineIds |-> 0]
    /\ cooldown_start_time = [e \in EngineIds |-> NoTime]
    /\ last_request_at = [e \in EngineIds |-> NoTime]
    /\ stage2_completed_at = [e \in EngineIds |-> NoTime]
    /\ boot_pc = "pending"
    /\ mon_pc = "sleep"
    /\ mon_cur = NoEngine
    /\ mon_rest = <<>>
    /\ mon_time = NoTime
    /\ pc = [r \in Requests |-> "ready"]
    /\ req_inst = [r \in Requests |-> NoEngine]
    /\ resp = [r \in Requests |-> NoResp]

\* Before the first call of get_available_port on the machine: no record file,
\* no lock file, nothing bound.
PortsIdle ==
    /\ port_file = [exists |-> FALSE, allocated_ports |-> [port \in Ports |-> NoPid],
                    order |-> <<>>]
    /\ port_lock = [exists |-> FALSE, holder |-> NoPid]
    /\ port_proc = [pid \in Pids |-> [alive |-> TRUE, pc |-> "idle",
                                      allocated_ports |-> [port \in Ports |-> NoPid],
                                      order |-> <<>>, todo |-> <<>>, port |-> 0,
                                      last |-> "none", returned |-> {}]]
    /\ port_bound = [port \in Ports |-> NoPid]

InitPool == PoolConstructed /\ RouterIdle /\ CallsIdle /\ PortsIdle

configVars == <<model_task, cooldown_delay, recycle_delay>>
monVars == <<mon_pc, mon_cur, mon_rest, mon_time>>
reqVars == <<pc, req_inst, resp>>
metricVars == <<cooldown_start_time, last_request_at, stage2_completed_at>>

\* ------------------------------------------------------------------ clock
Tick ==
    /\ now < MaxTime
    /\ now' = now + 1
    /\ UNCHANGED <<nonPoolVars, configVars, gpu_allocation, instances, instance_counter, stage,
                   model_executor, has_engine, serving_components, gpu_id,
                   active_requests, metricVars, boot_pc, monVars, reqVars>>


\* ------------------------------------------------------------------ first instance
\* _create_instance(STAGE2_ACTIVE), not shared.  Nothing in it suspends.
CreateFirstInstance(s1ok, s2ok, scok) ==
    /\ instance_counter < MaxEngines
    /\ LET id == instance_counter + 1
           g == allocate_gpu(gpu_allocation, instances, has_engine, FALSE)
           s1 == initialize_stage1(UNINITIALIZED, s1ok)
           s2 == initialize_stage2(s1, s1 = STAGE1_READY, s2ok)
           created == g >= 0 /\ s2 = STAGE2_ACTIVE
       IN  /\ instance_counter' = id
           /\ boot_pc' = "done"
           /\ instances' = IF created THEN instances \cup {id} ELSE instances
           /\ gpu_allocation' =
                 IF created THEN [gpu_allocation EXCEPT ![g] = id]
                 ELSE IF g >= 0 THEN release_gpu(gpu_allocation, g)
                 ELSE gpu_allocation
           /\ stage' = IF created THEN [stage EXCEPT ![id] = s2] ELSE stage
           /\ model_executor' =
                 IF created THEN [model_executor EXCEPT ![id] = TRUE] ELSE model_executor
           /\ has_engine' = IF created THEN [has_engine EXCEPT ![id] = TRUE] ELSE has_engine
           /\ serving_components' =
                 IF created
                 THEN [serving_components EXCEPT ![id] = IF scok THEN "built" ELSE "empty"]
                 ELSE serving_components
           /\ gpu_id' = IF created THEN [gpu_id EXCEPT ![id] = g] ELSE gpu_id
           /\ stage2_completed_at' =
                 IF created THEN [stage2_completed_at EXCEPT ![id] = now]
                 ELSE stage2_completed_at
    /\ UNCHANGED <<nonPoolVars, now, configVars, active_requests, cooldown_start_time,
                   last_request_at, monVars, reqVars>>

\* A variant that can run again after the boot.
InitializeFirstInstance_Again(s1ok, s2ok, scok) == CreateFirstInstance(s1ok, s2ok, scok)

\* _initialize_first_instance: its task is created once, in __init__.
InitializeFirstInstance(s1ok, s2ok, scok) ==
    /\ boot_pc = "pending"
    /\ CreateFirstInstance(s1ok, s2ok, scok)

\* ------------------------------------------------------------------ lifecycle loop
\* A variant of _trigger_cooldown that does not record the start of the cooldown.
trigger_cooldown_time_Unset(cooled, t) == cooldown_start_time

\* _trigger_cooldown: instance._cooldown_start_time = time.time(), for the
\* engines the loop has just marked.
trigger_cooldown_time(cooled, t) ==
    [e \in EngineIds |-> IF e \in cooled THEN t ELSE cooldown_start_time[e]]

\* One iteration of _monitor_lifecycle from its sleep up to the next suspension:
\* _trigger_cooldown does not suspend, _recycle_instance suspends in the awaited
\* shutdown of the engine.
MonitorTick ==
    /\ mon_pc = "sleep"
    /\ LET items == InOrder(instances)
           cooled == Cooled(items, now)
       IN  /\ stage' = [e \in EngineIds |->
                           IF e \in cooled THEN mark_cooldown(stage[e]) ELSE stage[e]]
           /\ cooldown_start_time' = trigger_cooldown_time(cooled, now)
           /\ IF LoopSuspends(items, now)
              THEN /\ mon_pc' = "recycling"
                   /\ mon_cur' = items[StopIdx(items, now)]
                   /\ mon_rest' = SubSeq(items, StopIdx(items, now) + 1, Len(items))
                   /\ mon_time' = now
              ELSE /\ mon_pc' = "sleep"
                   /\ mon_cur' = NoEngine
                   /\ mon_rest' = <<>>
                   /\ mon_time' = NoTime
    /\ UNCHANGED <<nonPoolVars, now, configVars, gpu_allocation, instances, instance_counter,
                   model_executor, has_engine, serving_components, gpu_id,
                   active_requests, last_request_at, stage2_completed_at, boot_pc,
                   reqVars>>

\* The rest of _recycle_instance after the awaited shutdown (rok: the recycler
\* and the CUDA cache release succeed), then, whatever it returned,
\* _create_instance_with_shared_gpu(STAGE1_READY) (s1ok: Stage1 succeeds), then
\* the rest of the loop iteration.  Nothing in it suspends.
RecycleFinish(rok, s1ok) ==
    /\ mon_pc = "recycling"
    /\ instance_counter < MaxEngines
    /\ LET e == mon_cur
           heA == [has_engine EXCEPT ![e] = FALSE]
           sharing == {i \in instances \ {e} : gpu_id[i] = gpu_id[e]}
           allocA == IF ~rok THEN gpu_allocation
                     ELSE IF sharing = {} THEN release_gpu(gpu_allocation, gpu_id[e])
                     ELSE [gpu_allocation EXCEPT ![gpu_id[e]] = Min(sharing)]
           instA == IF rok THEN instances \ {e} ELSE instances
           id == instance_counter + 1
           g == allocate_gpu(allocA, instA, heA, TRUE)
           created == g >= 0 /\ initialize_stage1(UNINITIALIZED, s1ok) = STAGE1_READY
           cooled == Cooled(mon_rest, mon_time)
       IN  /\ instance_counter' = id
           /\ gpu_allocation' = allocA
           /\ instances' = IF created THEN instA \cup {id} ELSE instA
           /\ has_engine' = [x \in EngineIds |-> IF created /\ x = id THEN TRUE ELSE heA[x]]
           /\ model_executor' = [x \in EngineIds |->
                 IF created /\ x = id THEN TRUE
                 ELSE IF x = e THEN FALSE ELSE model_executor[x]]
           /\ serving_components' = [serving_components EXCEPT ![e] = "None"]
           /\ gpu_id' = IF created THEN [gpu_id EXCEPT ![id] = g] ELSE gpu_id
           /\ stage' = [x \in EngineIds |->
                 IF created /\ x = id THEN STAGE1_READY
                 ELSE IF x \in cooled THEN mark_cooldown(stage[x]) ELSE stage[x]]
           /\ cooldown_start_time' = trigger_cooldown_time(cooled, now)
           /\ IF LoopSuspends(mon_rest, mon_time)
              THEN /\ mon_pc' = "recycling"
                   /\ mon_cur' = mon_rest[StopIdx(mon_rest, mon_time)]
                   /\ mon_rest' = SubSeq(mon_rest, StopIdx(mon_rest, mon_time) + 1,
                                         Len(mon_rest))
                   /\ mon_time' = mon_time
              ELSE /\ mon_pc' = "sleep"
                   /\ mon_cur' = NoEngine
                   /\ mon_rest' = <<>>
                   /\ mon_time' = NoTime
    /\ UNCHANGED <<nonPoolVars, now, configVars, active_requests, last_request_at,
                   stage2_completed_at, boot_pc, reqVars>>

\* ------------------------------------------------------------------ requests
\* A variant of the finally block that leaves the counter alone.
Decrement_Forgotten(n) == n

\* The finally block: instance.active_requests = max(0, instance.active_requests - 1).
Decrement(n) == IF n - 1 > 0 THEN n - 1 ELSE 0

\* generate / generate_embeddings / rerank from the call up to the awaited
\* engine call or an earlier return: _get_available_instance with
\* _activate_instance (s2ok: the weights load; scok: the serving components are
\* built), the counters, the component and request checks.  The finally block of
\* an early return has already run when the action ends.
Dispatch(r, kind, p, s2ok, scok) ==
    /\ pc[r] = "ready"
    /\ LET broken == \E e \in instances : ~has_engine[e]
           target == Candidate
           activate == /\ p.is_dict /\ ~broken /\ NeedsActivation
                       /\ is_ready_for_activation(stage[target])
                       /\ p.model = "known"
           newStage == IF activate
                       THEN initialize_stage2(stage[target], model_executor[target], s2ok)
                       ELSE UNINITIALIZED
           activated == activate /\ newStage = STAGE2_ACTIVE
           inst == IF ~p.is_dict \/ broken THEN NoEngine
                   ELSE IF NeedsActivation
                        THEN (IF activated THEN target ELSE NoEngine)
                        ELSE target
           sc == IF inst = NoEngine THEN "None"
                 ELSE IF activated THEN (IF scok THEN "built" ELSE "empty")
                 ELSE serving_components[inst]
           early ==
               IF ~p.is_dict
               THEN ErrorResponse("Invalid payload format", "invalid_request_error", 400)
               ELSE IF broken
               THEN ErrorResponse("AttributeError", "internal_server_error", 500)
               ELSE IF inst = NoEngine
               THEN ErrorResponse("No available instance", "service_unavailable", 503)
               ELSE IF sc = "None"
               THEN ErrorResponse("TypeError", "internal_server_error", 500)
               ELSE IF ComponentOf(kind) \notin Components(sc)
               THEN ErrorResponse("serving not available", "service_unavailable", 503)
               ELSE IF ~p.valid
               THEN ErrorResponse("Invalid request", "invalid_request_error", 400)
               ELSE NoResp
       IN  /\ stage' = IF activate THEN [stage EXCEPT ![target] = newStage] ELSE stage
           /\ stage2_completed_at' =
                 IF activated THEN [stage2_completed_at EXCEPT ![target] = now]
                 ELSE stage2_completed_at
           /\ serving_components' =
                 IF activated THEN [serving_components EXCEPT ![target] = sc]
                 ELSE serving_components
           /\ last_request_at' =
                 IF inst # NoEngine THEN [last_request_at EXCEPT ![inst] = now]
                 ELSE last_request_at
           /\ IF early = NoResp
              THEN /\ active_requests' =
                         [active_requests EXCEPT ![inst] = active_requests[inst] + 1]
                   /\ pc' = [pc EXCEPT ![r] = "serving"]
                   /\ req_inst' = [req_inst EXCEPT ![r] = inst]
                   /\ resp' = resp
              ELSE /\ active_requests' =
                         IF inst # NoEngine
                         THEN [active_requests EXCEPT
                                  ![inst] = Decrement(active_requests[inst] + 1)]
                         ELSE active_requests
                   /\ pc' = [pc EXCEPT ![r] = "returned"]
                   /\ req_inst' = req_inst
                   /\ resp' = [resp EXCEPT ![r] = early]
    /\ UNCHANGED <<nonPoolVars, now, configVars, gpu_allocation, instances, instance_counter,
                   model_executor, has_engine, gpu_id, cooldown_start_time, boot_pc,
                   monVars>>

\* The outcomes of the weight load and of the component construction matter only
\* when the call activates an engine.
Activates(p) == p.is_dict /\ NeedsActivation /\ p.model = "known"
                /\ \A e \in instances : has_engine[e]
LoadOutcomes(p) == IF Activates(p) THEN BOOLEAN ELSE {TRUE}
BuildOutcomes(p, s2ok) == IF Activates(p) /\ s2ok THEN BOOLEAN ELSE {TRUE}

Outcomes == {"ok", "error", "exception", "cancelled"}

\* The awaited engine call and everything after it.  A cancellation is raised at
\* the await itself, before the wrapper is reached: it passes `except Exception`
\* and only the finally block runs.  Otherwise the serving component calls
\* AsyncEngineWrapper.generate / encode, which raises unless the stage passes its
\* check, and the call ends in one of the other Outcomes.
Complete(r, outcome) ==
    /\ pc[r] = "serving"
    /\ LET e == req_inst[r]
           accepted == WrapperAccepts(stage[e])
           returns == accepted /\ outcome \in {"ok", "error"}
       IN  /\ resp' = [resp EXCEPT ![r] =
                 IF outcome = "cancelled" THEN CancelledResp
                 ELSE IF ~accepted
                 THEN ErrorResponse("Engine not in STAGE2_ACTIVE state",
                                    "internal_server_error", 500)
                 ELSE IF returns /\ ~has_engine[e]
                 THEN ErrorResponse("AttributeError", "internal_server_error", 500)
                 ELSE IF outcome = "ok" THEN OkResp
                 ELSE IF outcome = "error"
                 THEN ErrorResponse("serving error", "invalid_request_error", 400)
                 ELSE IF outcome = "exception"
                 THEN ErrorResponse("exception", "internal_server_error", 500)
                 ELSE CancelledResp]
           /\ last_request_at' =
                 IF returns /\ has_engine[e] THEN [last_request_at EXCEPT ![e] = now]
                 ELSE last_request_at
           /\ active_requests' = [active_requests EXCEPT ![e] = Decrement(active_requests[e])]
           /\ req_inst' = [req_inst EXCEPT ![r] = NoEngine]
           /\ pc' = [pc EXCEPT ![r] = "returned"]
    /\ UNCHANGED <<nonPoolVars, now, configVars, gpu_allocation, instances, instance_counter, stage,
                   model_executor, has_engine, serving_components, gpu_id,
                   cooldown_start_time, stage2_completed_at, boot_pc, monVars>>

\* The caller (Controller) takes the result; the client slot is free again.
Collect(r) ==
    /\ pc[r] = "returned"
    /\ pc' = [pc EXCEPT ![r] = "ready"]
    /\ resp' = [resp EXCEPT ![r] = NoResp]
    /\ UNCHANGED <<nonPoolVars, now, configVars, gpu_allocation, instances, instance_counter, stage,
                   model_executor, has_engine, serving_components, gpu_id,
                   active_requests, metricVars, boot_pc, monVars, req_inst>>

NextPool ==
    \/ Tick
    \/ \E s1ok, s2ok, scok \in BOOLEAN : InitializeFirstInstance(s1ok, s2ok, scok)
    \/ MonitorTick
    \/ \E rok, s1ok \in BOOLEAN : RecycleFinish(rok, s1ok)
    \/ \E r \in Requests, kind \in Kinds, p \in Payloads :
          \E s2ok \in LoadOutcomes(p) : \E scok \in BuildOutcomes(p, s2ok) :
              Dispatch(r, kind, p, s2ok, scok)
    \/ \E r \in Requests, outcome \in Outcomes : Complete(r, outcome)
    \/ \E r \in Requests : Collect(r)

Spec == InitPool /\ [][NextPool]_vars

\* The lifecycle task is an endless loop (while True, sleep 2 s, sleep 10 s after
\* an exception) on a running event loop: its iteration and the rest of a
\* recycle it awaits are taken whenever they stay possible; the clock advances.
SpecLifecycle ==
    /\ Spec
    /\ WF_vars(Tick)
    /\ WF_vars(MonitorTick)
    /\ WF_vars(\E rok, s1ok \in BOOLEAN : RecycleFinish(rok, s1ok))


\* ------------------------------------------------------------------ engine API
\* The engine's lifecycle methods called directly, in any order, on engines that
\* were constructed and nothing else.
EngineInitializeStage1(e, ok) ==
    /\ stage' = [stage EXCEPT ![e] = initialize_stage1(stage[e], ok)]
    /\ model_executor' =
          IF stage[e] = UNINITIALIZED /\ ok THEN [model_executor EXCEPT ![e] = TRUE]
          ELSE model_executor
    /\ UNCHANGED <<nonPoolVars, now, configVars, gpu_allocation, instances, instance_counter,
                   has_engine, serving_components, gpu_id, active_requests,
                   metricVars, boot_pc, monVars, reqVars>>

EngineInitializeStage2(e, ok) ==
    /\ stage' = [stage EXCEPT ![e] = initialize_stage2(stage[e], model_executor[e], ok)]
    /\ stage2_completed_at' =
          IF initialize_stage2(stage[e], model_executor[e], ok) = STAGE2_ACTIVE
             /\ stage[e] = STAGE1_READY
          THEN [stage2_completed_at EXCEPT ![e] = now]
          ELSE stage2_completed_at
    /\ UNCHANGED <<nonPoolVars, now, configVars, gpu_allocation, instances, instance_counter,
                   model_executor, has_engine, serving_components, gpu_id,
                   active_requests, cooldown_start_time, last_request_at, boot_pc,
                   monVars, reqVars>>

EngineMarkCooldown(e) ==
    /\ stage' = [stage EXCEPT ![e] = mark_cooldown(stage[e])]
    /\ UNCHANGED <<nonPoolVars, now, configVars, gpu_allocation, instances, instance_counter,
                   model_executor, has_engine, serving_components, gpu_id,
                   active_requests, metricVars, boot_pc, monVars, reqVars>>

\* EngineRecycler.recycle_engine: shuts the executor down and drops the engine's
\* components; it reads the stage (ERROR forces) and never writes it.
EngineRecycle(e) ==
    /\ model_executor' = [model_executor EXCEPT ![e] = FALSE]
    /\ UNCHANGED <<nonPoolVars, now, configVars, gpu_allocation, instances, instance_counter,
                   stage, has_engine, serving_components, gpu_id, active_requests,
                   metricVars, boot_pc, monVars, reqVars>>

NextEngine ==
    \/ \E e \in EngineIds, ok \in BOOLEAN : EngineInitializeStage1(e, ok)
    \/ \E e \in EngineIds, ok \in BOOLEAN : EngineInitializeStage2(e, ok)
    \/ \E e \in EngineIds : EngineMarkCooldown(e)
    \/ \E e \in EngineIds : EngineRecycle(e)

SpecEngine == InitPool /\ [][NextEngine]_vars

\* ------------------------------------------------------------------ CHWBL router
\* f"{replica_id}:{i}"
VirtualNodeKey(id, i) == id \o ":" \o ToString(i)

\* The cache keys routed: ordinary keys and keys that are also virtual-node keys.
CacheKeys == {"user_0:hello", "req-4", "user_0:hi", "req-1", "A:0", "C:2"}

\* _hash: int(md5(key).hexdigest()[:16], 16), of which the leading 31 bits are
\* kept (the value divided by 2^33); the keys below differ in those bits, so
\* the order and the equalities of the 64-bit values are preserved.
hash(key) ==
    CASE key = "C:2" -> 117337155
      [] key = "B:3" -> 117594339
      [] key = "B:1" -> 124056387
      [] key = "user_0:hello" -> 170919313
      [] key = "A:1" -> 223612218
      [] key = "C:1" -> 244283218
      [] key = "B:0" -> 360483520
      [] key = "req-4" -> 479018825
      [] key = "A:0" -> 737210640
      [] key = "user_0:hi" -> 930096309
      [] key = "C:0" -> 1170444722
      [] key = "A:3" -> 1192050071
      [] key = "C:3" -> 1211015004
      [] key = "B:2" -> 1501951179
      [] key = "req-1" -> 1763179740
      [] key = "A:2" -> 1801055218

\* bisect.bisect_left: the number of entries below x.
bisect_left(a, x) == Cardinality({j \in 1..Len(a) : a[j] < x})

\* bisect.insort: x goes after the entries that are <= x.
insort(a, x) ==
    LET k == Cardinality({j \in 1..Len(a) : a[j] <= x})
    IN  SubSeq(a, 1, k) \o <<x>> \o SubSeq(a, k + 1, Len(a))

\* _search: the index (from 1) of the first point >= key_hash, the first point
\* of the ring if there is none.
search(sorted, key_hash) ==
    IF bisect_left(sorted, key_hash) >= Len(sorted) THEN 1
    ELSE bisect_left(sorted, key_hash) + 1

\* A ring is the pair of _hash_to_replica_id and _sorted_hashes.
Ring(m, sorted) == [map |-> m, sorted |-> sorted]

\* _add_replica_to_ring, virtual nodes i .. VirtualNodes - 1.
RECURSIVE add_replica_to_ring(_, _, _)
add_replica_to_ring(ring, id, i) ==
    IF i >= VirtualNodes THEN ring
    ELSE LET hash_val == hash(VirtualNodeKey(id, i))
         IN  add_replica_to_ring(
                 Ring([x \in DOMAIN ring.map \cup {hash_val} |->
                          IF x = hash_val THEN id ELSE ring.map[x]],
                      insort(ring.sorted, hash_val)),
                 id, i + 1)

\* One step of the removal loop: del the dict entry, pop one copy of the point.
remove_point(ring, hash_val) ==
    LET idx == bisect_left(ring.sorted, hash_val) + 1
    IN  Ring([x \in DOMAIN ring.map \ {hash_val} |-> ring.map[x]],
             IF idx <= Len(ring.sorted) /\ ring.sorted[idx] = hash_val
             THEN SubSeq(ring.sorted, 1, idx - 1)
                  \o SubSeq(ring.sorted, idx + 1, Len(ring.sorted))
             ELSE ring.sorted)

RECURSIVE remove_points(_, _)
remove_points(ring, points) ==
    IF points = {} THEN ring
    ELSE remove_points(remove_point(ring, Min(points)), points \ {Min(points)})

\* _remove_replica_from_ring: the points are distinct dict keys, so the order in
\* which they are removed does not matter.
remove_replica_from_ring(ring, id) ==
    remove_points(ring, {h \in DOMAIN ring.map : ring.map[h] = id})

RECURSIVE remove_replicas(_, _)
remove_replicas(ring, ids) ==
    IF ids = {} THEN ring
    ELSE LET id == CHOOSE x \in ids : TRUE
         IN  remove_replicas(remove_replica_from_ring(ring, id), ids \ {id})

\* A variant that adds every list entry, known or not.
RECURSIVE add_new_replicas_All(_, _, _, _)
add_new_replicas_All(ring, list, i, old) ==
    IF i > Len(list) THEN ring
    ELSE add_new_replicas_All(add_replica_to_ring(ring, list[i], 0), list, i + 1, old)

\* The second loop of update_replicas: every list entry whose id is not in the
\* replica map as it was before the call is added.
RECURSIVE add_new_replicas(_, _, _, _)
add_new_replicas(ring, list, i, old) ==
    IF i > Len(list) THEN ring
    ELSE add_new_replicas(
             IF list[i] \notin old THEN add_replica_to_ring(ring, list[i], 0) ELSE ring,
             list, i + 1, old)

Range(list) == {list[i] : i \in 1..Len(list)}

\* _create_load_snapshot
create_load_snapshot ==
    [id \in replicas |-> IF queue_len_cache[id] = NoLoad THEN 0 ELSE queue_len_cache[id]]

RECURSIVE SumValues(_, _)
SumValues(f, S) ==
    IF S = {} THEN 0
    ELSE LET x == CHOOSE y \in S : TRUE IN f[x] + SumValues(f, S \ {x})

\* _check_load_with_snapshot: (load + 1) <= ((total + 1) / n) * 1.25, which for
\* these magnitudes is the integer comparison below.
check_load_with_snapshot(replica_id, load_snapshot) ==
    LET load == IF replica_id \in DOMAIN load_snapshot THEN load_snapshot[replica_id] ELSE 0
        total_load == SumValues(load_snapshot, DOMAIN load_snapshot)
    IN  LoadFactorDen * Cardinality(replicas) * (load + 1)
            <= LoadFactorNum * (total_load + 1)

\* The while loop of choose_replica_for_request from index idx (from 1), with the
\* ids checked so far, the default so far ("None" if none) and the number n of
\* iterations done.  After Len(sorted_hashes) iterations every point has been
\* seen, so a loop whose condition still holds then never ends ("hang").
RECURSIVE Walk(_, _, _, _, _)
Walk(idx, checked, default, n, load_snapshot) ==
    IF Cardinality(checked) >= Cardinality(replicas) THEN default
    ELSE IF idx > Len(sorted_hashes) THEN "IndexError"
    ELSE IF n >= Len(sorted_hashes) THEN "hang"
    ELSE IF sorted_hashes[idx] \notin DOMAIN hash_to_replica_id THEN "KeyError"
    ELSE LET cur == hash_to_replica_id[sorted_hashes[idx]]
             next == (idx % Len(sorted_hashes)) + 1
         IN  IF cur \in checked THEN Walk(next, checked, default, n + 1, load_snapshot)
             ELSE IF cur \notin replicas
             THEN Walk(next, checked \cup {cur}, default, n + 1, load_snapshot)
             ELSE IF check_load_with_snapshot(cur, load_snapshot) THEN cur
             ELSE Walk(next, checked \cup {cur},
                       IF default = "None" THEN cur ELSE default, n + 1, load_snapshot)

\* choose_replica_for_request for a request whose cache key is key: the id of
\* the replica returned, "None", or the exception raised.
choose_replica_for_request(key) ==
    IF replicas = {} \/ Len(sorted_hashes) = 0 THEN "None"
    ELSE LET replica_idx == search(sorted_hashes, hash(key))
         IN  IF replica_idx > Len(sorted_hashes) THEN "IndexError"
             ELSE IF sorted_hashes[replica_idx] \notin DOMAIN hash_to_replica_id
             THEN "KeyError"
             ELSE Walk(replica_idx, {}, "None", 0, create_load_snapshot)

\* update_replicas(list of replicas)
UpdateReplicas(list) ==
    /\ LET old == replicas
           ringA == remove_replicas(Ring(hash_to_replica_id, sorted_hashes),
                                    old \ Range(list))
           ringB == add_new_replicas(ringA, list, 1, old)
       IN  /\ hash_to_replica_id' = ringB.map
           /\ sorted_hashes' = ringB.sorted
           /\ replicas' = Range(list)
    /\ UNCHANGED <<nonRouterVars, queue_len_cache, route_key, route_result>>

OnReplicaActorDied(id) ==
    /\ IF id \in replicas
       THEN LET ring == remove_replica_from_ring(Ring(hash_to_replica_id, sorted_hashes), id)
            IN  /\ replicas' = replicas \ {id}
                /\ hash_to_replica_id' = ring.map
                /\ sorted_hashes' = ring.sorted
       ELSE UNCHANGED <<replicas, hash_to_replica_id, sorted_hashes>>
    /\ UNCHANGED <<nonRouterVars, queue_len_cache, route_key, route_result>>

\* on_replica_actor_unavailable: invalidate_key on the queue-length cache.
OnReplicaActorUnavailable(id) ==
    /\ queue_len_cache' = [queue_len_cache EXCEPT ![id] = NoLoad]
    /\ UNCHANGED <<nonRouterVars, replicas, hash_to_replica_id, sorted_hashes, route_key,
                   route_result>>

\* on_new_queue_len_info: the update of the cache under _load_lock, which a
\* snapshot in progress (_create_load_snapshot) or an on_request_completed call
\* between its read and its write holds.
OnNewQueueLenInfo(id, num_ongoing_requests) ==
    /\ route_call.pc # "snapshot_next"
    /\ completed_call.pc = "idle"
    /\ queue_len_cache' = [queue_len_cache EXCEPT ![id] = num_ongoing_requests]
    /\ UNCHANGED <<nonRouterVars, replicas, hash_to_replica_id, sorted_hashes, route_key,
                   route_result>>

\* on_request_completed, first part: _load_lock is taken and the load of the
\* replica is read from the cache.  Without a load the call logs and returns.
OnRequestCompletedGet(id) ==
    /\ route_call.pc # "snapshot_next"
    /\ completed_call.pc = "idle"
    /\ completed_call' =
          IF queue_len_cache[id] = NoLoad THEN completed_call
          ELSE [pc |-> "update", id |-> id, current_load |-> queue_len_cache[id]]
    /\ UNCHANGED <<poolVars, portVars, routerVars, update_call, static_replica_list,
                   static_call, key_call, route_call>>

\* A variant without the clamp at zero.
OnRequestCompletedUpdate_Unclamped ==
    /\ completed_call.pc = "update"
    /\ queue_len_cache' =
          [queue_len_cache EXCEPT ![completed_call.id] = completed_call.current_load - 1]
    /\ completed_call' = [pc |-> "idle", id |-> "none", current_load |-> NoLoad]
    /\ UNCHANGED <<poolVars, portVars, update_call, static_replica_list, static_call,
                   key_call, route_call, replicas, hash_to_replica_id, sorted_hashes,
                   route_key, route_result>>

\* on_request_completed, second part: the load read, decremented but not below
\* 0, is written to the cache and the lock is released.  The entry is written
\* whether or not the cache still holds one for the replica.
OnRequestCompletedUpdate ==
    /\ completed_call.pc = "update"
    /\ queue_len_cache' =
          [queue_len_cache EXCEPT
              ![completed_call.id] = IF completed_call.current_load - 1 > 0
                                     THEN completed_call.current_load - 1 ELSE 0]
    /\ completed_call' = [pc |-> "idle", id |-> "none", current_load |-> NoLoad]
    /\ UNCHANGED <<poolVars, portVars, update_call, static_replica_list, static_call,
                   key_call, route_call, replicas, hash_to_replica_id, sorted_hashes,
                   route_key, route_result>>

\* The replica lists handed to update_replicas: every list of ids, of up to as
\* many entries as there are ids; a list may name a replica more than once.
ReplicaLists == UNION {[1..n -> ReplicaIds] : n \in 0..Cardinality(ReplicaIds)}

\* update_replicas, explored as long as the ring has at most MaxPoints entries.
UpdateReplicasAnyList(list) ==
    /\ UpdateReplicas(list)
    /\ Len(sorted_hashes') <= MaxPoints

\* The scheduler's callbacks and whole update_replicas calls, in any order.  A
\* routing decision made in a state while nothing else runs is the operator
\* choose_replica_for_request in that state; decisions that run while other
\* threads run are followed statement by statement further below.
NextRouter ==
    \/ \E list \in ReplicaLists : UpdateReplicasAnyList(list)
    \/ \E id \in ReplicaIds : OnReplicaActorDied(id)
    \/ \E id \in ReplicaIds : OnReplicaActorUnavailable(id)
    \/ \E id \in ReplicaIds, n \in 0..MaxLoad : OnNewQueueLenInfo(id, n)
    \/ \E id \in ReplicaIds : OnRequestCompletedGet(id)
    \/ OnRequestCompletedUpdate

InitRouter == InitPool /\ model_task = "text-generation"

SpecRouter == InitRouter /\ [][NextRouter]_vars

\* ------------------------------------------------------------------------
\* The scheduler's methods on several threads.  update_replicas and
\* on_replica_actor_died hold no lock, and choose_replica_for_request holds
\* _load_lock only inside _create_load_snapshot: a step below is one statement
\* that reads or writes _replicas, _hash_to_replica_id or _sorted_hashes, with
\* the thread-local statements that follow it.  One writing call (update_replicas
\* or on_replica_actor_died) and one routing decision are in progress at a time;
\* MaxUpdates writing calls are followed from a ring that earlier calls have
\* built.

\* The lists of the calls followed statement by statement: those that name each
\* replica once.  Lists that repeat an id are followed as whole calls (SpecRouter,
\* SpecRing).
DistinctReplicaLists ==
    {list \in ReplicaLists : \A i, j \in 1..Len(list) : i # j => list[i] # list[j]}

\* The points of replica id in _hash_to_replica_id, in the dict's order, which is
\* the order of insertion: virtual node 0 first.
RECURSIVE PointsOf(_, _)
PointsOf(id, i) ==
    IF i >= VirtualNodes THEN <<>>
    ELSE LET hash_val == hash(VirtualNodeKey(id, i))
         IN  (IF hash_val \in DOMAIN hash_to_replica_id /\ hash_to_replica_id[hash_val] = id
              THEN <<hash_val>> ELSE <<>>) \o PointsOf(id, i + 1)

\* update_replicas, lines 269-270: old_replica_ids and new_replica_ids are
\* computed; todo is old_replica_ids - new_replica_ids.
UpdateBegin(list) ==
    /\ update_call.pc = "idle"
    /\ update_call.calls < MaxUpdates
    /\ update_call' = [NoUpdate EXCEPT !.pc = "remove", !.op = "update", !.list = list,
                                       !.todo = replicas \ Range(list),
                                       !.calls = update_call.calls + 1]
    /\ UNCHANGED <<poolVars, portVars, routerVars, static_replica_list, static_call,
                   key_call, completed_call, route_call>>

\* on_replica_actor_died, lines 291-293: del self._replicas[replica_id]; the
\* removal from the ring follows.  The dict changes size: an iteration over it
\* that is in progress (_create_load_snapshot, line 79) will find it resized.
DiedBegin(id) ==
    /\ update_call.pc = "idle"
    /\ update_call.calls < MaxUpdates
    /\ IF id \in replicas
       THEN /\ replicas' = replicas \ {id}
            /\ update_call' = [NoUpdate EXCEPT !.pc = "remove", !.op = "died",
                                               !.todo = {id},
                                               !.calls = update_call.calls + 1]
            /\ route_call' = IF route_call.pc = "snapshot_next"
                             THEN [route_call EXCEPT !.resized = TRUE]
                             ELSE route_call
       ELSE UNCHANGED <<replicas, update_call, route_call>>
    /\ UNCHANGED <<poolVars, portVars, static_replica_list, static_call, key_call,
                   completed_call, hash_to_replica_id, sorted_hashes, queue_len_cache,
                   route_key, route_result>>

\* The next replica of the first loop (a set, iterated in any order) and the
\* first loop of _remove_replica_from_ring, lines 244-247, which collects its
\* points; after the last replica, the second loop of update_replicas, or the
\* end of on_replica_actor_died.
RemoveNext ==
    /\ update_call.pc = "remove"
    /\ IF update_call.todo = {}
       THEN update_call' = IF update_call.op = "update"
                           THEN [update_call EXCEPT !.pc = "add", !.idx = 1]
                           ELSE [NoUpdate EXCEPT !.calls = update_call.calls]
       ELSE \E id \in update_call.todo :
               update_call' = [update_call EXCEPT
                                  !.todo = @ \ {id},
                                  !.points = PointsOf(id, 0),
                                  !.pc = IF PointsOf(id, 0) = <<>> THEN "remove" ELSE "del"]
    /\ UNCHANGED <<poolVars, portVars, routerVars, static_replica_list, static_call,
                   key_call, completed_call, route_call>>

\* Line 251: del self._hash_to_replica_id[hash_val].
RemoveDel ==
    /\ update_call.pc = "del"
    /\ hash_to_replica_id' =
          [x \in DOMAIN hash_to_replica_id \ {Head(update_call.points)} |->
              hash_to_replica_id[x]]
    /\ update_call' = [update_call EXCEPT !.pc = "pop"]
    /\ UNCHANGED <<poolVars, portVars, static_replica_list, static_call, key_call,
                   completed_call, route_call, replicas, sorted_hashes,
                   queue_len_cache, route_key, route_result>>

\* Lines 252-254: the point is looked up in _sorted_hashes and popped.
RemovePop ==
    /\ update_call.pc = "pop"
    /\ sorted_hashes' =
          remove_point(Ring(hash_to_replica_id, sorted_hashes),
                       Head(update_call.points)).sorted
    /\ update_call' = [update_call EXCEPT
                          !.points = Tail(@),
                          !.pc = IF Tail(update_call.points) = <<>> THEN "remove"
                                 ELSE "del"]
    /\ UNCHANGED <<poolVars, portVars, static_replica_list, static_call, key_call,
                   completed_call, route_call, replicas, hash_to_replica_id,
                   queue_len_cache, route_key, route_result>>

\* Lines 277-278: the next entry of the list; it is added if its id is not in
\* self._replicas, which is still the map of before the call.
AddNext ==
    /\ update_call.pc = "add"
    /\ update_call' =
          IF update_call.idx > Len(update_call.list)
          THEN [update_call EXCEPT !.pc = "publish"]
          ELSE IF update_call.list[update_call.idx] \notin replicas
          THEN [update_call EXCEPT !.pc = "set", !.i = 0]
          ELSE [update_call EXCEPT !.idx = @ + 1]
    /\ UNCHANGED <<poolVars, portVars, routerVars, static_replica_list, static_call,
                   key_call, completed_call, route_call>>

\* Line 236: self._hash_to_replica_id[hash_val] = replica_id.
AddSet ==
    /\ update_call.pc = "set"
    /\ LET id == update_call.list[update_call.idx]
           hash_val == hash(VirtualNodeKey(id, update_call.i))
       IN  hash_to_replica_id' =
              [x \in DOMAIN hash_to_replica_id \cup {hash_val} |->
                  IF x = hash_val THEN id ELSE hash_to_replica_id[x]]
    /\ update_call' = [update_call EXCEPT !.pc = "insort"]
    /\ UNCHANGED <<poolVars, portVars, static_replica_list, static_call, key_call,
                   completed_call, route_call, replicas, sorted_hashes,
                   queue_len_cache, route_key, route_result>>

\* Line 237: bisect.insort(self._sorted_hashes, hash_val), then the next virtual
\* node or the next entry of the list.
AddInsort ==
    /\ update_call.pc = "insort"
    /\ LET id == update_call.list[update_call.idx]
       IN  sorted_hashes' = insort(sorted_hashes, hash(VirtualNodeKey(id, update_call.i)))
    /\ update_call' =
          IF update_call.i + 1 >= VirtualNodes
          THEN [update_call EXCEPT !.pc = "add", !.idx = @ + 1, !.i = 0]
          ELSE [update_call EXCEPT !.pc = "set", !.i = @ + 1]
    /\ UNCHANGED <<poolVars, portVars, static_replica_list, static_call, key_call,
                   completed_call, route_call, replicas, hash_to_replica_id,
                   queue_len_cache, route_key, route_result>>

\* Line 282: self._replicas = {...}.
UpdatePublish ==
    /\ update_call.pc = "publish"
    /\ replicas' = Range(update_call.list)
    /\ update_call' = [NoUpdate EXCEPT !.calls = update_call.calls]
    /\ UNCHANGED <<poolVars, portVars, static_replica_list, static_call, key_call,
                   completed_call, route_call, hash_to_replica_id, sorted_hashes,
                   queue_len_cache, route_key, route_result>>

\* One more than the points of a ring that holds every replica.
WalkCap == Cardinality(ReplicaIds) * VirtualNodes + 1

\* The routing decision ends: it returns a replica id or "None", or raises.
RouteEnds(key, result) ==
    /\ route_key' = key
    /\ route_result' = result
    /\ route_call' = NoRoute

\* Line 89: the early return on an empty replica map or an empty ring; then the
\* cache key and its hash, which read no shared state.
RouteStart(key) ==
    /\ route_call.pc = "idle"
    /\ IF replicas = {} \/ Len(sorted_hashes) = 0
       THEN RouteEnds(key, "None")
       ELSE /\ route_call' = [NoRoute EXCEPT !.pc = "bisect", !.key = key]
            /\ UNCHANGED <<route_key, route_result>>
    /\ UNCHANGED <<poolVars, portVars, completed_call, update_call, static_replica_list,
                   static_call, key_call, replicas, hash_to_replica_id, sorted_hashes,
                   queue_len_cache>>

\* _search, line 220: idx = bisect.bisect_left(self._sorted_hashes, key_hash);
\* positions are counted from 1 here.
RouteBisect ==
    /\ route_call.pc = "bisect"
    /\ route_call' = [route_call EXCEPT
                         !.pc = "wrap",
                         !.idx = bisect_left(sorted_hashes, hash(route_call.key)) + 1]
    /\ UNCHANGED <<poolVars, portVars, routerVars, update_call, static_replica_list,
                   static_call, key_call, completed_call>>

\* _search, lines 223-224: past the end of the list as it is now, the index
\* wraps to the first point.
RouteWrap ==
    /\ route_call.pc = "wrap"
    /\ route_call' = [route_call EXCEPT
                         !.pc = "index",
                         !.idx = IF @ > Len(sorted_hashes) THEN 1 ELSE @]
    /\ UNCHANGED <<poolVars, portVars, routerVars, update_call, static_replica_list,
                   static_call, key_call, completed_call>>

\* _search, line 226: return self._sorted_hashes[idx], idx.
RouteIndex ==
    /\ route_call.pc = "index"
    /\ IF route_call.idx > Len(sorted_hashes)
       THEN RouteEnds(route_call.key, "IndexError")
       ELSE /\ route_call' = [route_call EXCEPT !.pc = "lookup",
                                                !.hash = sorted_hashes[route_call.idx]]
            /\ UNCHANGED <<route_key, route_result>>
    /\ UNCHANGED <<poolVars, portVars, completed_call, update_call, static_replica_list,
                   static_call, key_call, replicas, hash_to_replica_id, sorted_hashes,
                   queue_len_cache>>

\* Line 105: initial_replica_id = self._hash_to_replica_id[replica_hash].
RouteLookup ==
    /\ route_call.pc = "lookup"
    /\ IF route_call.hash \notin DOMAIN hash_to_replica_id
       THEN RouteEnds(route_call.key, "KeyError")
       ELSE /\ route_call' = [route_call EXCEPT !.pc = "snapshot", !.hash = 0]
            /\ UNCHANGED <<route_key, route_result>>
    /\ UNCHANGED <<poolVars, portVars, completed_call, update_call, static_replica_list,
                   static_call, key_call, replicas, hash_to_replica_id, sorted_hashes,
                   queue_len_cache>>

\* Line 113, _create_load_snapshot, lines 77-79: _load_lock is taken and the
\* iteration over self._replicas starts.
RouteSnapshot ==
    /\ route_call.pc = "snapshot"
    /\ completed_call.pc = "idle"
    /\ route_call' = [route_call EXCEPT
                         !.pc = "snapshot_next",
                         !.todo = replicas,
                         !.resized = FALSE,
                         !.load_snapshot = [id \in {} |-> 0]]
    /\ UNCHANGED <<poolVars, portVars, routerVars, update_call, static_replica_list,
                   static_call, key_call, completed_call>>

\* Lines 79-83, one replica of the iteration, in the insertion order of the
\* dict, which is any order of the replicas: the dict iterator raises
\* RuntimeError if the dict has changed size since the iteration started; a dict
\* assigned to self._replicas meanwhile (line 282) is another object, and the
\* iteration goes on over the old one.  The load of the replica is read from the
\* cache (0 if there is none).  After the last replica the lock is released
\* and checked_replica_ids, default_replica_id and current_idx are initialised
\* (lines 115-119).  `atomic` records what the decision returns if no other
\* thread runs before it ends.
RouteSnapshotNext ==
    /\ route_call.pc = "snapshot_next"
    /\ IF route_call.resized
       THEN RouteEnds(route_call.key, "RuntimeError")
       ELSE /\ IF route_call.todo = {}
               THEN route_call' =
                       [route_call EXCEPT
                           !.pc = "while",
                           !.atomic = Walk(route_call.idx, {}, "None", 0,
                                           route_call.load_snapshot)]
               ELSE \E id \in route_call.todo :
                       LET load == IF queue_len_cache[id] = NoLoad THEN 0
                                   ELSE queue_len_cache[id]
                       IN  route_call' =
                              [route_call EXCEPT
                                  !.todo = @ \ {id},
                                  !.load_snapshot =
                                      [x \in DOMAIN @ \cup {id} |->
                                          IF x = id THEN load ELSE @[x]]]
            /\ UNCHANGED <<route_key, route_result>>
    /\ UNCHANGED <<poolVars, portVars, completed_call, update_call, static_replica_list,
                   static_call, key_call, replicas, hash_to_replica_id, sorted_hashes,
                   queue_len_cache>>

\* Line 121: while len(checked_replica_ids) < len(self._replicas); after the
\* loop, line 157: if default_replica_id, else return None (line 166).
RouteWhile ==
    /\ route_call.pc = "while"
    /\ IF Cardinality(route_call.checked) < Cardinality(replicas)
       THEN /\ route_call' = [route_call EXCEPT !.pc = "hash"]
            /\ UNCHANGED <<route_key, route_result>>
       ELSE IF route_call.default # "None"
       THEN /\ route_call' = [route_call EXCEPT !.pc = "default"]
            /\ UNCHANGED <<route_key, route_result>>
       ELSE RouteEnds(route_call.key, "None")
    /\ UNCHANGED <<poolVars, portVars, completed_call, update_call, static_replica_list,
                   static_call, key_call, replicas, hash_to_replica_id, sorted_hashes,
                   queue_len_cache>>

\* Line 122: current_hash = self._sorted_hashes[current_idx].  `n` counts the
\* iterations of the loop, up to one more than the ring can hold points.
RouteHash ==
    /\ route_call.pc = "hash"
    /\ IF route_call.idx > Len(sorted_hashes)
       THEN RouteEnds(route_call.key, "IndexError")
       ELSE /\ route_call' = [route_call EXCEPT
                                 !.pc = "id",
                                 !.hash = sorted_hashes[route_call.idx],
                                 !.n = IF @ < WalkCap THEN @ + 1 ELSE @]
            /\ UNCHANGED <<route_key, route_result>>
    /\ UNCHANGED <<poolVars, portVars, completed_call, update_call, static_replica_list,
                   static_call, key_call, replicas, hash_to_replica_id, sorted_hashes,
                   queue_len_cache>>

\* Line 123: current_replica_id = self._hash_to_replica_id[current_hash]; then
\* the test for an id already checked and checked_replica_ids.add.
RouteId ==
    /\ route_call.pc = "id"
    /\ IF route_call.hash \notin DOMAIN hash_to_replica_id
       THEN RouteEnds(route_call.key, "KeyError")
       ELSE /\ LET cur == hash_to_replica_id[route_call.hash]
               IN  route_call' =
                      IF cur \in route_call.checked
                      THEN [route_call EXCEPT !.pc = "advance", !.hash = 0]
                      ELSE [route_call EXCEPT !.pc = "get", !.hash = 0, !.rid = cur,
                                              !.checked = @ \cup {cur}]
            /\ UNCHANGED <<route_key, route_result>>
    /\ UNCHANGED <<poolVars, portVars, completed_call, update_call, static_replica_list,
                   static_call, key_call, replicas, hash_to_replica_id, sorted_hashes,
                   queue_len_cache>>

\* Line 133: replica = self._replicas.get(current_replica_id); a replica not
\* found is skipped, the first one found becomes the default.
RouteGet ==
    /\ route_call.pc = "get"
    /\ route_call' =
          IF route_call.rid \notin replicas
          THEN [route_call EXCEPT !.pc = "advance", !.rid = "none"]
          ELSE [route_call EXCEPT
                   !.pc = "check",
                   !.default = IF @ = "None" THEN route_call.rid ELSE @]
    /\ UNCHANGED <<poolVars, portVars, routerVars, update_call, static_replica_list,
                   static_call, key_call, completed_call>>

\* Line 144: _check_load_with_snapshot, which divides by len(self._replicas)
\* (line 184); the replica found at line 133 is returned if it passes.
RouteCheck ==
    /\ route_call.pc = "check"
    /\ IF replicas = {}
       THEN RouteEnds(route_call.key, "ZeroDivisionError")
       ELSE IF check_load_with_snapshot(route_call.rid, route_call.load_snapshot)
       THEN RouteEnds(route_call.key, route_call.rid)
       ELSE /\ route_call' = [route_call EXCEPT !.pc = "advance", !.rid = "none"]
            /\ UNCHANGED <<route_key, route_result>>
    /\ UNCHANGED <<poolVars, portVars, completed_call, update_call, static_replica_list,
                   static_call, key_call, replicas, hash_to_replica_id, sorted_hashes,
                   queue_len_cache>>

\* Lines 127, 137, 154: current_idx = (current_idx + 1) % len(self._sorted_hashes).
RouteAdvance ==
    /\ route_call.pc = "advance"
    /\ IF Len(sorted_hashes) = 0
       THEN RouteEnds(route_call.key, "ZeroDivisionError")
       ELSE /\ route_call' = [route_call EXCEPT
                                 !.pc = "while",
                                 !.idx = (route_call.idx % Len(sorted_hashes)) + 1]
            /\ UNCHANGED <<route_key, route_result>>
    /\ UNCHANGED <<poolVars, portVars, completed_call, update_call, static_replica_list,
                   static_call, key_call, replicas, hash_to_replica_id, sorted_hashes,
                   queue_len_cache>>

\* Line 163: return self._replicas[default_replica_id].
RouteDefault ==
    /\ route_call.pc = "default"
    /\ IF route_call.default \in replicas
       THEN RouteEnds(route_call.key, route_call.default)
       ELSE RouteEnds(route_call.key, "KeyError")
    /\ UNCHANGED <<poolVars, portVars, completed_call, update_call, static_replica_list,
                   static_call, key_call, replicas, hash_to_replica_id, sorted_hashes,
                   queue_len_cache>>

\* A statement of the routing decision in progress.
RouteStep ==
    \/ RouteBisect
    \/ RouteWrap
    \/ RouteIndex
    \/ RouteLookup
    \/ RouteSnapshot
    \/ RouteSnapshotNext
    \/ RouteWhile
    \/ RouteHash
    \/ RouteId
    \/ RouteGet
    \/ RouteCheck
    \/ RouteAdvance
    \/ RouteDefault

\* Two keys are routed while another thread changes the ring.
NextThreads ==
    \/ \E list \in DistinctReplicaLists : UpdateBegin(list)
    \/ \E id \in ReplicaIds : DiedBegin(id)
    \/ RemoveNext
    \/ RemoveDel
    \/ RemovePop
    \/ AddNext
    \/ AddSet
    \/ AddInsort
    \/ UpdatePublish
    \/ \E key \in {"user_0:hello", "req-4"} : RouteStart(key)
    \/ RouteStep

\* The scheduler after update_replicas(list) on a new scheduler, list a list of
\* replicas among ids, no call in progress.
InitThreads(ids) ==
    /\ PoolConstructed /\ model_task = "text-generation"
    /\ CallsIdle /\ PortsIdle
    /\ \E list \in DistinctReplicaLists :
          LET ring == add_new_replicas(Ring(<<>>, <<>>), list, 1, {})
          IN  /\ Range(list) \subseteq ids
              /\ replicas = Range(list)
              /\ hash_to_replica_id = ring.map
              /\ sorted_hashes = ring.sorted
    /\ queue_len_cache = [id \in ReplicaIds |-> NoLoad]
    /\ route_key = "none"
    /\ route_result = "idle"

SpecThreads == InitThreads(ReplicaIds) /\ [][NextThreads]_vars

\* ------------------------------------------------------------------------
\* The same threads with the load callbacks: two replicas, the load of one of
\* them reported.  on_new_queue_len_info and on_request_completed wait for
\* _load_lock while a snapshot is being taken; on_replica_actor_unavailable takes
\* no lock.
NextRouting ==
    \/ RouteStart("user_0:hello")
    \/ RouteStep
    \/ \E list \in {l \in DistinctReplicaLists : Range(l) \subseteq {"A", "B"}} :
          UpdateBegin(list)
    \/ \E id \in {"A", "B"} : DiedBegin(id)
    \/ RemoveNext
    \/ RemoveDel
    \/ RemovePop
    \/ AddNext
    \/ AddSet
    \/ AddInsort
    \/ UpdatePublish
    \/ OnReplicaActorUnavailable("A")
    \/ \E n \in 0..MaxLoad : OnNewQueueLenInfo("A", n)
    \/ OnRequestCompletedGet("A")
    \/ OnRequestCompletedUpdate

SpecRouting == InitThreads({"A", "B"}) /\ [][NextRouting]_vars

\* ------------------------------------------------------------------------
\* The static-hash scheduler and request router.

\* pending_request.args as str() prints it; "[]" is the empty (falsy) payload.
StaticPayloads == {"[]", "['a']", "['b']"}
RequestIds == {"req-1", "req-3"}

\* int(hashlib.md5(s.encode()).hexdigest(), 16), kept modulo 27720, the least
\* common multiple of 1..12, so that the remainder by any list length up to 12
\* is the remainder of the whole digest.
md5_int(payload_str) ==
    CASE payload_str = "req-1" -> 9600
      [] payload_str = "req-3" -> 3497
      [] payload_str = "['a']" -> 4192
      [] payload_str = "['b']" -> 15925

\* The string that is hashed: str(request_id) for a falsy payload.
payload_str(payload, request_id) == IF payload = "[]" THEN request_id ELSE payload

\* list({replica.replica_id: replica for replica in replicas}.values()), as ids:
\* a dict keeps each key once, at the position of its first occurrence.
RECURSIVE replica_list(_)
replica_list(list) ==
    IF list = <<>> THEN <<>>
    ELSE LET front == replica_list(SubSeq(list, 1, Len(list) - 1))
             last == list[Len(list)]
         IN  IF last \in Range(front) THEN front ELSE Append(front, last)

\* StaticHashReplicaScheduler.update_replicas: the dict is rebuilt from the list
\* given and the list from the values of the dict.
StaticUpdateReplicas(list) ==
    /\ static_replica_list' = replica_list(list)
    /\ UNCHANGED <<poolVars, portVars, routerVars, update_call, static_call, key_call,
                   completed_call, route_call>>

StaticOnReplicaActorDied(id) ==
    /\ static_replica_list' = SelectSeq(static_replica_list, LAMBDA x : x # id)
    /\ UNCHANGED <<poolVars, portVars, routerVars, update_call, static_call, key_call,
                   completed_call, route_call>>

\* What a call did: the value returned, or the exception raised.
Returned(value) == [raised |-> "", value |-> value]
Raised(exception) == [raised |-> exception, value |-> "None"]

\* StaticHashReplicaScheduler.choose_replica_for_request
StaticChooseReplicaForRequest(payload, request_id) ==
    /\ static_call' =
          [op |-> "choose_replica_for_request", candidates |-> static_replica_list,
           has_request |-> TRUE, payload |-> payload, request_id |-> request_id,
           result |->
              IF static_replica_list = <<>> THEN Returned("None")
              ELSE Returned(static_replica_list[
                                (md5_int(payload_str(payload, request_id))
                                    % Len(static_replica_list)) + 1])]
    /\ UNCHANGED <<poolVars, portVars, routerVars, update_call, static_replica_list,
                   key_call, completed_call, route_call>>

\* StaticHashRequestRouter.choose_replicas; has_request is FALSE when
\* pending_request is None.  The result is the list of groups returned or the
\* exception raised.
StaticChooseReplicas(candidate_replicas, has_request, payload, request_id) ==
    /\ static_call' =
          [op |-> "choose_replicas", candidates |-> candidate_replicas,
           has_request |-> has_request, payload |-> payload, request_id |-> request_id,
           result |->
              IF ~has_request THEN Raised("AttributeError")
              ELSE IF Len(candidate_replicas) = 0 THEN Raised("ZeroDivisionError")
              ELSE Returned(<< <<candidate_replicas[
                                    (md5_int(payload_str(payload, request_id))
                                        % Len(candidate_replicas)) + 1]>> >>)]
    /\ UNCHANGED <<poolVars, portVars, routerVars, update_call, static_replica_list,
                   key_call, completed_call, route_call>>

NextStatic ==
    \/ \E list \in ReplicaLists : StaticUpdateReplicas(list)
    \/ \E id \in ReplicaIds : StaticOnReplicaActorDied(id)
    \/ \E payload \in StaticPayloads, request_id \in RequestIds :
          StaticChooseReplicaForRequest(payload, request_id)
    \/ \E list \in ReplicaLists, has_request \in BOOLEAN, payload \in StaticPayloads,
          request_id \in RequestIds :
          StaticChooseReplicas(list, has_request, payload, request_id)

SpecStatic == InitRouter /\ [][NextStatic]_vars

\* ------------------------------------------------------------------------
\* ConsistentHashReplicaScheduler._extract_cache_key.

\* The elements of a messages list: dicts with or without the keys role and
\* content, and one element that is not a dict (a string).
Messages ==
    {[role |-> "system", content |-> "S"],
     [role |-> "system", content |-> "T"],
     [role |-> "system"],
     [role |-> "user", content |-> "Valid message"],
     [role |-> "user", content |-> "x"],
     [role |-> "assistant", content |-> "z"],
     [content |-> "What is Python?"],
     [str |-> "invalid message format"]}

MessageLists == UNION {[1..n -> Messages] : n \in 0..MaxMessages}

\* The payloads: a dict with a messages list, a tuple whose first element is
\* that dict, a (non-empty) dict without messages, None, an empty list, an empty
\* dict, a string, and a tuple whose first element is a string.
KeyPayloads ==
    {[form |-> f, messages |-> m] : f \in {"dict", "tuple"}, m \in MessageLists}
        \cup {[form |-> "dict"], [form |-> "None"], [form |-> "empty_list"],
              [form |-> "empty_dict"], [form |-> "str"], [form |-> "tuple_of_str"]}

\* not payload
Falsy(payload) == payload.form \in {"None", "empty_list", "empty_dict"}

\* isinstance(msg, dict)
IsDict(msg) == "str" \notin DOMAIN msg

\* msg.get(field, '')
Get(msg, field) == IF field \in DOMAIN msg THEN msg[field] ELSE ""

\* The loop over the messages from index i: system_prompt (None and '' are both
\* falsy and both kept as "") and user_messages, with the early exit once
\* max_user_messages_for_cache user messages are collected.
RECURSIVE scan_messages(_, _, _, _, _)
scan_messages(messages, i, system_prompt, user_messages, max_user_messages_for_cache) ==
    IF i > Len(messages)
    THEN [system_prompt |-> system_prompt, user_messages |-> user_messages]
    ELSE IF ~IsDict(messages[i])
    THEN scan_messages(messages, i + 1, system_prompt, user_messages,
                       max_user_messages_for_cache)
    ELSE IF Get(messages[i], "role") = "system"
    THEN scan_messages(messages, i + 1, Get(messages[i], "content"), user_messages,
                       max_user_messages_for_cache)
    ELSE IF Get(messages[i], "role") = "user"
    THEN IF Len(user_messages) + 1 >= max_user_messages_for_cache
         THEN [system_prompt |-> system_prompt,
               user_messages |-> Append(user_messages, Get(messages[i], "content"))]
         ELSE scan_messages(messages, i + 1, system_prompt,
                            Append(user_messages, Get(messages[i], "content")),
                            max_user_messages_for_cache)
    ELSE scan_messages(messages, i + 1, system_prompt, user_messages,
                       max_user_messages_for_cache)

\* "|".join(components)
RECURSIVE Join(_)
Join(components) ==
    IF Len(components) = 0 THEN ""
    ELSE IF Len(components) = 1 THEN components[1]
    ELSE components[1] \o "|" \o Join(Tail(components))

\* f"user_{i}:{user_msg}" for i, user_msg in enumerate(user_messages)
UserComponents(user_messages) ==
    [i \in 1..Len(user_messages) |-> "user_" \o ToString(i - 1) \o ":" \o user_messages[i]]

\* A variant that falls back to the request id when no component was captured.
extract_cache_key_AlwaysRequestId(payload, request_id, max_user_messages_for_cache) ==
    IF Falsy(payload) THEN [kind |-> "str(request_id)", key |-> request_id]
    ELSE IF payload.form \notin {"tuple", "tuple_of_str", "dict"}
    THEN [kind |-> "str(payload)", key |-> ""]
    ELSE IF payload.form = "tuple_of_str"      \* 'str' object has no attribute 'get'
    THEN [kind |-> "str(request_id)", key |-> request_id]
    ELSE LET messages == IF "messages" \in DOMAIN payload THEN payload.messages ELSE <<>>
             found == scan_messages(messages, 1, "", <<>>, max_user_messages_for_cache)
             cache_components ==
                 (IF found.system_prompt # ""
                  THEN <<"system:" \o found.system_prompt>> ELSE <<>>)
                     \o UserComponents(found.user_messages)
         IN  IF cache_components # <<>>
             THEN [kind |-> "key", key |-> Join(cache_components)]
             ELSE [kind |-> "str(request_id)", key |-> request_id]

\* _extract_cache_key: the chat key, or the fallback taken (str(payload), or
\* str(request_id), also after the exception that request_data.get raises when
\* the first element of the tuple is not a dict).
extract_cache_key(payload, request_id, max_user_messages_for_cache) ==
    IF Falsy(payload) THEN [kind |-> "str(request_id)", key |-> request_id]
    ELSE IF payload.form \notin {"tuple", "tuple_of_str", "dict"}
    THEN [kind |-> "str(payload)", key |-> ""]
    ELSE IF payload.form = "tuple_of_str"      \* 'str' object has no attribute 'get'
    THEN [kind |-> "str(request_id)", key |-> request_id]
    ELSE LET messages == IF "messages" \in DOMAIN payload THEN payload.messages ELSE <<>>
             found == scan_messages(messages, 1, "", <<>>, max_user_messages_for_cache)
             cache_components ==
                 (IF found.system_prompt # ""
                  THEN <<"system:" \o found.system_prompt>> ELSE <<>>)
                     \o UserComponents(found.user_messages)
         IN  IF cache_components # <<>>
             THEN [kind |-> "key", key |-> Join(cache_components)]
             ELSE [kind |-> "str(payload)", key |-> ""]

ExtractCacheKey ==
    /\ key_call.pc = "ready"
    /\ key_call' = [key_call EXCEPT
                       !.pc = "done",
                       !.result = extract_cache_key(key_call.payload, key_call.request_id,
                                                    key_call.N)]
    /\ UNCHANGED <<poolVars, portVars, routerVars, update_call, static_replica_list,
                   static_call, route_call, completed_call>>

\* The scheduler as constructed with max_user_messages_for_cache = N, and a
\* request whose key is about to be extracted.
InitKey ==
    /\ PoolConstructed
    /\ model_task = "text-generation"
    /\ RouterIdle
    /\ update_call = NoUpdate
    /\ static_replica_list = <<>>
    /\ static_call = [op |-> "none"]
    /\ completed_call = [pc |-> "idle", id |-> "none", current_load |-> NoLoad]
    /\ route_call = NoRoute
    /\ PortsIdle
    /\ key_call \in {[pc |-> "ready", payload |-> p, request_id |-> "test_request_id",
                      N |-> n, result |-> [kind |-> "none", key |-> ""]] :
                        p \in KeyPayloads, n \in 0..MaxUserMessages}

SpecKey == InitKey /\ [][ExtractCacheKey]_vars

\* ------------------------------------------------------------------------
\* The port allocator (_util/port.py): get_available_port run by several
\* processes: a step is one statement that reads or writes the files, the lock,
\* the process table or the sockets, with the local statements that follow it.

\* The record file as it is when first written, and allocated_ports = {}.
NoPorts == [port \in Ports |-> NoPid]

\* is_port_available: the bind probe succeeds.
is_port_available(port) == port_bound[port] = NoPid

\* Lines 17-24: the call starts; port_file.exists() is evaluated.
PortFileExists(pid) ==
    /\ port_proc[pid].alive
    /\ port_proc[pid].pc = "idle"
    /\ port_proc' = [port_proc EXCEPT
                        ![pid].pc = IF port_file.exists THEN "open_lock" ELSE "write_text",
                        ![pid].last = "running"]
    /\ UNCHANGED <<poolVars, routerVars, callVars, port_file, port_lock, port_bound>>

\* Line 24, port_file.write_text("{}"), first part: the file is opened for
\* writing, which creates it or truncates it.  An empty file is read as {}
\* (json.load raises JSONDecodeError).
PortWriteTextOpen(pid) ==
    /\ port_proc[pid].alive
    /\ port_proc[pid].pc = "write_text"
    /\ port_file' = [exists |-> TRUE, allocated_ports |-> NoPorts, order |-> <<>>]
    /\ port_proc' = [port_proc EXCEPT ![pid].pc = "write_text_write"]
    /\ UNCHANGED <<poolVars, routerVars, callVars, port_lock, port_bound>>

\* Line 24, second part: "{}" is written at offset 0 and the file is closed.
\* Over a record written meanwhile the two characters leave text that is not
\* JSON, which is read as {} as well.
PortWriteText(pid) ==
    /\ port_proc[pid].alive
    /\ port_proc[pid].pc = "write_text_write"
    /\ port_file' = [exists |-> TRUE, allocated_ports |-> NoPorts, order |-> <<>>]
    /\ port_proc' = [port_proc EXCEPT ![pid].pc = "open_lock"]
    /\ UNCHANGED <<poolVars, routerVars, callVars, port_lock, port_bound>>

\* Lines 25-28: the lock file is created if missing and opened.
PortOpenLock(pid) ==
    /\ port_proc[pid].alive
    /\ port_proc[pid].pc = "open_lock"
    /\ port_lock' = [port_lock EXCEPT !.exists = TRUE]
    /\ port_proc' = [port_proc EXCEPT ![pid].pc = "flock"]
    /\ UNCHANGED <<poolVars, routerVars, callVars, port_file, port_bound>>

\* Line 30: flock with LOCK_EX | LOCK_NB raises BlockingIOError if another
\* process holds the lock; the finally clause then unlocks the caller's own
\* descriptor, which holds nothing.
PortFlock(pid) ==
    /\ port_proc[pid].alive
    /\ port_proc[pid].pc = "flock"
    /\ IF port_lock.holder = NoPid
       THEN /\ port_lock' = [port_lock EXCEPT !.holder = pid]
            /\ port_proc' = [port_proc EXCEPT ![pid].pc = "load"]
       ELSE /\ port_lock' = port_lock
            /\ port_proc' = [port_proc EXCEPT ![pid].pc = "idle",
                                              ![pid].last = "BlockingIOError"]
    /\ UNCHANGED <<poolVars, routerVars, callVars, port_file, port_bound>>

\* Lines 32-38: json.load of the record ({} if the file is missing), and
\* list(allocated_ports.items()), the entries the pruning loop will test.
PortLoad(pid) ==
    /\ port_proc[pid].alive
    /\ port_proc[pid].pc = "load"
    /\ LET order == IF port_file.exists THEN port_file.order ELSE <<>>
       IN  port_proc' = [port_proc EXCEPT
                            ![pid].pc = IF order = <<>> THEN "scan" ELSE "prune",
                            ![pid].allocated_ports =
                                IF port_file.exists THEN port_file.allocated_ports
                                ELSE NoPorts,
                            ![pid].order = order,
                            ![pid].todo = order,
                            ![pid].port = 1]
    /\ UNCHANGED <<poolVars, routerVars, callVars, port_file, port_lock, port_bound>>

\* Lines 39-43, one entry: os.kill(pid, 0) raises ESRCH if the process of the
\* entry no longer exists, and the entry is deleted from the dict read.
PortPrune(pid) ==
    /\ port_proc[pid].alive
    /\ port_proc[pid].pc = "prune"
    /\ LET port == Head(port_proc[pid].todo)
           dead == ~port_proc[port_proc[pid].allocated_ports[port]].alive
       IN  port_proc' = [port_proc EXCEPT
                            ![pid].pc = IF Tail(port_proc[pid].todo) = <<>> THEN "scan"
                                        ELSE "prune",
                            ![pid].todo = Tail(@),
                            ![pid].allocated_ports =
                                IF dead THEN [@ EXCEPT ![port] = NoPid] ELSE @,
                            ![pid].order =
                                IF dead THEN SelectSeq(@, LAMBDA q : q # port) ELSE @]
    /\ UNCHANGED <<poolVars, routerVars, callVars, port_file, port_lock, port_bound>>

\* Lines 46-53 and 58, one port of the range: a port recorded for the caller is
\* returned; a port that is not recorded and passes the bind probe is taken; after
\* the last port RuntimeError is raised (port 0: no port).
PortProbe(pid) ==
    /\ port_proc[pid].alive
    /\ port_proc[pid].pc = "scan"
    /\ LET port == port_proc[pid].port
       IN  port_proc' =
              IF port_proc[pid].allocated_ports[port] = pid
              THEN [port_proc EXCEPT ![pid].pc = "unlock"]
              ELSE IF port_proc[pid].allocated_ports[port] = NoPid
                      /\ is_port_available(port)
              THEN [port_proc EXCEPT ![pid].pc = "write",
                                     ![pid].allocated_ports = [@ EXCEPT ![port] = pid],
                                     ![pid].order = Append(@, port)]
              ELSE IF port < NumPorts
              THEN [port_proc EXCEPT ![pid].port = port + 1]
              ELSE [port_proc EXCEPT ![pid].pc = "unlock", ![pid].port = 0]
    /\ UNCHANGED <<poolVars, routerVars, callVars, port_file, port_lock, port_bound>>

\* Line 54: the record file is opened for writing, which truncates it.
PortWriteOpen(pid) ==
    /\ port_proc[pid].alive
    /\ port_proc[pid].pc = "write"
    /\ port_file' = [exists |-> TRUE, allocated_ports |-> NoPorts, order |-> <<>>]
    /\ port_proc' = [port_proc EXCEPT ![pid].pc = "dump"]
    /\ UNCHANGED <<poolVars, routerVars, callVars, port_lock, port_bound>>

\* Line 55: json.dump of the dict, written at offset 0 when the file is closed;
\* the text is longer than a "{}" written meanwhile and replaces it.
PortWrite(pid) ==
    /\ port_proc[pid].alive
    /\ port_proc[pid].pc = "dump"
    /\ port_file' = [exists |-> TRUE,
                     allocated_ports |-> port_proc[pid].allocated_ports,
                     order |-> port_proc[pid].order]
    /\ port_proc' = [port_proc EXCEPT ![pid].pc = "unlock"]
    /\ UNCHANGED <<poolVars, routerVars, callVars, port_lock, port_bound>>

\* Lines 60-61, then the return or the RuntimeError: the finally clause releases
\* the lock.
PortUnlock(pid) ==
    /\ port_proc[pid].alive
    /\ port_proc[pid].pc = "unlock"
    /\ port_lock' = [port_lock EXCEPT !.holder = IF @ = pid THEN NoPid ELSE @]
    /\ port_proc' = [port_proc EXCEPT
                        ![pid].pc = "idle",
                        ![pid].allocated_ports = NoPorts,
                        ![pid].order = <<>>,
                        ![pid].port = 0,
                        ![pid].last = IF port_proc[pid].port = 0 THEN "RuntimeError"
                                      ELSE "returned",
                        ![pid].returned =
                            IF port_proc[pid].port = 0 THEN @
                            ELSE @ \cup {port_proc[pid].port}]
    /\ UNCHANGED <<poolVars, routerVars, callVars, port_file, port_bound>>

\* The process binds a port it was given (the caller of get_available_port
\* starts its server on it).
PortBind(pid, port) ==
    /\ port_proc[pid].alive
    /\ port \in port_proc[pid].returned
    /\ is_port_available(port)
    /\ port_bound' = [port_bound EXCEPT ![port] = pid]
    /\ UNCHANGED <<poolVars, routerVars, callVars, port_file, port_lock, port_proc>>

\* The process exits: its sockets are closed and its flock is released by the
\* operating system; the record file keeps its entries.
PortExit(pid) ==
    /\ port_proc[pid].alive
    /\ port_proc' = [port_proc EXCEPT ![pid] = [alive |-> FALSE, pc |-> "exited",
                                                allocated_ports |-> NoPorts,
                                                order |-> <<>>, todo |-> <<>>, port |-> 0,
                                                last |-> "exited", returned |-> {}]]
    /\ port_lock' = IF port_lock.holder = pid THEN [port_lock EXCEPT !.holder = NoPid]
                    ELSE port_lock
    /\ port_bound' = [port \in Ports |-> IF port_bound[port] = pid THEN NoPid
                                         ELSE port_bound[port]]
    /\ UNCHANGED <<poolVars, routerVars, callVars, port_file>>

NextPorts ==
    \E pid \in Pids :
        \/ PortFileExists(pid)
        \/ PortWriteTextOpen(pid)
        \/ PortWriteText(pid)
        \/ PortOpenLock(pid)
        \/ PortFlock(pid)
        \/ PortLoad(pid)
        \/ PortPrune(pid)
        \/ PortProbe(pid)
        \/ PortWriteOpen(pid)
        \/ PortWrite(pid)
        \/ PortUnlock(pid)
        \/ \E port \in Ports : PortBind(pid, port)
        \/ PortExit(pid)

SpecPorts == InitRouter /\ [][NextPorts]_vars

\* ------------------------------------------------------------------------
\* The CHWBL ring alone: whole update_replicas and on_replica_actor_died calls.

NextRing ==
    \/ \E list \in ReplicaLists : UpdateReplicasAnyList(list)
    \/ \E id \in ReplicaIds : OnReplicaActorDied(id)

SpecRing == InitRouter /\ [][NextRing]_vars

\* ================================================================== claims
\* C1: in every reachable state of the pool manager no GPU slot has more than one
\* engine of the instance map in STAGE2_ACTIVE whose gpu_id is that slot.
ActiveOn(g) == {e \in instances : stage[e] = STAGE2_ACTIVE /\ gpu_id[e] = g}
C1_OneActivePerSlot == \A g \in Slots : Cardinality(ActiveOn(g)) <= 1

\* A standby created after a recycle has been activated by a request and serves it.
C1_Witness ==
    \E e \in instances : e > 1 /\ stage[e] = STAGE2_ACTIVE /\ active_requests[e] > 0

\* C2: whenever the instance map is non-empty, some engine in it is in
\* STAGE2_ACTIVE or STAGE2_COOLDOWN.
C2_ServingEngineExists ==
    instances # {} =>
        \E e \in instances : has_engine[e] /\ can_accept_requests(stage[e])

\* C3: for every engine, active_requests equals the number of generate /
\* generate_embeddings / rerank calls in flight on it (so it is never negative,
\* and 0 when all calls have returned).
InFlight(e) == {r \in Requests : pc[r] = "serving" /\ req_inst[r] = e}
C3_ActiveRequestsCountInFlight ==
    \A e \in EngineIds : active_requests[e] = Cardinality(InFlight(e))

\* One call has ended by cancellation while another is still in flight.
C3_Witness ==
    \E r1, r2 \in Requests :
        /\ pc[r1] = "returned" /\ resp[r1].type = "cancelled"
        /\ pc[r2] = "serving" /\ active_requests[req_inst[r2]] = 1

\* C4: a request dispatched to a STAGE2_COOLDOWN engine is accepted by the
\* engine's serving path: it is not rejected because of the engine's stage.
C4_CooldownStillServes ==
    [][\A r \in Requests, o \in Outcomes :
          (Complete(r, o) /\ stage[req_inst[r]] = STAGE2_COOLDOWN)
              => resp'[r].message # "Engine not in STAGE2_ACTIVE state"]_vars

\* C5: under any order of initialize_stage1, initialize_stage2, mark_cooldown and
\* recycle calls, an engine's stage changes only along UNINITIALIZED ->
\* STAGE1_READY -> STAGE2_ACTIVE -> STAGE2_COOLDOWN or to ERROR; a call made in a
\* stage that does not permit it leaves the stage unchanged; recycling tears the
\* engine down and does not change the stage; so no stage is re-entered.
PermittedTransitions ==
    {<<UNINITIALIZED, STAGE1_READY>>, <<STAGE1_READY, STAGE2_ACTIVE>>,
     <<STAGE2_ACTIVE, STAGE2_COOLDOWN>>}
    \cup {<<s, ERROR>> : s \in EngineStage \ {ERROR}}

C5_StageOnlyAdvances ==
    [][\A e \in EngineIds :
          /\ stage'[e] # stage[e] => <<stage[e], stage'[e]>> \in PermittedTransitions
          /\ \A ok \in BOOLEAN :
                /\ (EngineInitializeStage1(e, ok) /\ stage[e] # UNINITIALIZED)
                       => stage'[e] = stage[e]
                /\ (EngineInitializeStage2(e, ok) /\ stage[e] # STAGE1_READY)
                       => stage'[e] = stage[e]
          /\ (EngineMarkCooldown(e) /\ stage[e] # STAGE2_ACTIVE) => stage'[e] = stage[e]
          /\ EngineRecycle(e) => stage'[e] = stage[e]]_vars

\* One engine went the whole way and was recycled, another failed in Stage2.
C5_Witness ==
    \E e, f \in EngineIds :
        /\ stage[e] = STAGE2_COOLDOWN /\ ~model_executor[e]
        /\ stage[f] = ERROR

\* C6: when a cooldown engine that owns a slot is recycled and a standby stands
\* on that slot, the slot's owner in the allocation map becomes the standby; the
\* slot is not left unassigned.
C6_SlotGoesToStandby ==
    [][\A e \in EngineIds, g \in Slots :
          (/\ e \in instances /\ gpu_allocation[g] = e /\ stage[e] = STAGE2_COOLDOWN
           /\ e \notin instances'
           /\ \E s \in instances' : gpu_id'[s] = g /\ stage'[s] = STAGE1_READY)
          => (gpu_allocation'[g] \in instances' /\ gpu_id'[gpu_allocation'[g]] = g)]_vars

\* C7: after a recycle, with only a STAGE1_READY standby in the instance map, the
\* first well-formed chat request (model field present or not) whose weight load
\* and component construction succeed activates the standby and is served by it.
StandbyOnly ==
    /\ instance_counter >= 2
    /\ Cardinality(instances) = 1
    /\ \A e \in instances : has_engine[e] /\ stage[e] = STAGE1_READY

C7_FirstRequestActivatesStandby ==
    [][\A r \in Requests, p \in Payloads :
          (/\ StandbyOnly /\ model_task = "text-generation"
           /\ p.is_dict /\ p.valid /\ p.model \in {"absent", "known"}
           /\ Dispatch(r, "generate", p, TRUE, TRUE))
          => (/\ stage'[Candidate] = STAGE2_ACTIVE
              /\ pc'[r] = "serving" /\ req_inst'[r] = Candidate)]_vars

\* C8: when the Stage2 initialisation of a STAGE1_READY engine fails during
\* request dispatch, the engine's stage becomes ERROR, the caller gets
\* service_unavailable / 503, and no engine's active_requests changes.
C8_ActivationFailure ==
    [][\A r \in Requests, kind \in Kinds, p \in Payloads :
          (Activates(p) /\ Dispatch(r, kind, p, FALSE, TRUE))
          => (/\ stage'[Candidate] = ERROR
              /\ pc'[r] = "returned"
              /\ resp'[r].type = "service_unavailable" /\ resp'[r].code = 503
              /\ active_requests' = active_requests)]_vars

\* A failed activation has left an engine in ERROR and the caller holds the 503.
C8_Witness ==
    \E e \in instances, r \in Requests :
        /\ stage[e] = ERROR
        /\ pc[r] = "returned" /\ resp[r].message = "No available instance"

\* C9: for every ring state, load snapshot and cache key, the routing decision
\* returns the first replica, in ring order from the first point >= hash(key)
\* (wrapping to the first point), whose load satisfies
\* load + 1 <= load_factor * (sum of loads + 1) / (number of replicas), a missing
\* load counting as 0; if no replica satisfies it, the first replica met.
C9_Load(id) == IF queue_len_cache[id] = NoLoad THEN 0 ELSE queue_len_cache[id]
C9_Start(key) ==
    IF \E j \in 1..Len(sorted_hashes) : sorted_hashes[j] >= hash(key)
    THEN Min({j \in 1..Len(sorted_hashes) : sorted_hashes[j] >= hash(key)})
    ELSE 1
\* The number of steps from the start point to the first point of id.
C9_Point(key, k) == sorted_hashes[((C9_Start(key) - 1 + k) % Len(sorted_hashes)) + 1]
C9_Distance(key, id) ==
    Min({k \in 0..(Len(sorted_hashes) - 1) :
            /\ C9_Point(key, k) \in DOMAIN hash_to_replica_id
            /\ hash_to_replica_id[C9_Point(key, k)] = id})
C9_First(key, S) == CHOOSE id \in S : \A o \in S : C9_Distance(key, id) <= C9_Distance(key, o)
C9_WithinBound ==
    {id \in replicas :
        LoadFactorDen * Cardinality(replicas) * (C9_Load(id) + 1)
            <= LoadFactorNum * (SumValues([x \in replicas |-> C9_Load(x)], replicas) + 1)}
C9_Expected(key) ==
    IF C9_WithinBound # {} THEN C9_First(key, C9_WithinBound) ELSE C9_First(key, replicas)

C9_BoundedLoadSelection ==
    \A key \in CacheKeys :
        replicas # {}
            => /\ choose_replica_for_request(key) \in replicas
               /\ choose_replica_for_request(key) = C9_Expected(key)

\* C10: when the router knows exactly one replica, every routing decision
\* returns it, for every cache key and every cached load (or none) of it.
C10_SingleReplica ==
    \A key \in CacheKeys :
        Cardinality(replicas) = 1 => {choose_replica_for_request(key)} = replicas

\* C11: two routing decisions made with equal cache key and equal ring state
\* (ring points, their owners and the replica map) yield the same result:
\* over any step that leaves the ring state as it is, the decision for every
\* key stays the same.
RingState == <<replicas, hash_to_replica_id, sorted_hashes>>
C11_Deterministic ==
    [][RingState' = RingState
          => \A key \in CacheKeys :
                choose_replica_for_request(key)' = choose_replica_for_request(key)]_vars

\* C12: every cached load is >= 0; on_request_completed on an entry with load n
\* stores max(0, n - 1) and touches no other entry, and on a replica without a
\* cache entry it changes nothing and creates no entry.
C12_LoadClamp ==
    [][/\ \A id \in ReplicaIds :
             queue_len_cache'[id] = NoLoad \/ queue_len_cache'[id] >= 0
       /\ \A id \in ReplicaIds :
             OnRequestCompletedGet(id) =>
                /\ queue_len_cache' = queue_len_cache
                /\ queue_len_cache[id] = NoLoad => completed_call'.pc = "idle"
                /\ queue_len_cache[id] # NoLoad =>
                      /\ completed_call'.id = id
                      /\ completed_call'.current_load = queue_len_cache[id]
       /\ OnRequestCompletedUpdate =>
             LET id == completed_call.id
                 n == completed_call.current_load
             IN  /\ \A o \in ReplicaIds \ {id} : queue_len_cache'[o] = queue_len_cache[o]
                 /\ n = 0 => queue_len_cache'[id] = 0
                 /\ n > 0 => queue_len_cache'[id] = n - 1]_vars

\* An on_request_completed call has read a load of zero and is about to write,
\* while the cache holds an entry above zero for a second replica and no entry
\* for a third.
C12_Witness ==
    \E b, c \in ReplicaIds :
        /\ completed_call.pc = "update"
        /\ completed_call.current_load = 0
        /\ queue_len_cache[b] = MaxLoad - 1
        /\ queue_len_cache[c] = NoLoad
        /\ completed_call.id \notin {b, c}

\* C13: on_replica_actor_unavailable(id) drops only the cache entry of id and
\* leaves ring and replica map unchanged; on_replica_actor_died(id) removes id
\* from the replica map and all of its points from the ring and leaves the cache
\* and every other replica's points unchanged; on an unknown id it changes
\* nothing.
C13_PointsWithout(id) == {h \in DOMAIN hash_to_replica_id : hash_to_replica_id[h] # id}
C13_FrameEffects ==
    [][\A id \in ReplicaIds :
          /\ OnReplicaActorUnavailable(id) =>
                /\ queue_len_cache'[id] = NoLoad
                /\ \A o \in ReplicaIds \ {id} : queue_len_cache'[o] = queue_len_cache[o]
                /\ RingState' = RingState
          /\ (OnReplicaActorDied(id) /\ id \in replicas) =>
                /\ replicas' = replicas \ {id}
                /\ DOMAIN hash_to_replica_id' = C13_PointsWithout(id)
                /\ \A h \in C13_PointsWithout(id) :
                      hash_to_replica_id'[h] = hash_to_replica_id[h]
                /\ {sorted_hashes'[j] : j \in 1..Len(sorted_hashes')} = C13_PointsWithout(id)
                /\ Len(sorted_hashes') = Cardinality(C13_PointsWithout(id))
                /\ queue_len_cache' = queue_len_cache
          /\ (OnReplicaActorDied(id) /\ id \notin replicas) =>
                /\ RingState' = RingState
                /\ queue_len_cache' = queue_len_cache]_vars

\* C14: update_replicas is atomic with respect to routing: a routing decision
\* running on another thread never observes a state in which the ring's points
\* and the replica map disagree (the replicas owning points are the replicas of
\* the map, and the sorted points are the keys of the point-to-replica dict).
C14_RoutingSeesWholeRing ==
    [][(/\ update_call.op = "update"
        /\ (RouteStep \/ \E key \in {"user_0:hello", "req-4"} : RouteStart(key))) =>
          /\ {hash_to_replica_id[h] : h \in DOMAIN hash_to_replica_id} = replicas
          /\ Range(sorted_hashes) = DOMAIN hash_to_replica_id]_vars

\* C16: the static-hash router selects candidates[h mod len(candidates)], h the
\* MD5 digest of the request's key as an integer; the selected index is within
\* the list, and two requests with identical payloads against the same candidate
\* list in the same order are routed to the same replica (here: a call and the
\* call before it, on the router and on the scheduler).
C16_SamePayloadSameReplica ==
    [][/\ \A list \in ReplicaLists, payload \in StaticPayloads, request_id \in RequestIds :
             (/\ list # <<>>
              /\ static_call'.op = "choose_replicas"
              /\ static_call'.has_request
              /\ static_call'.candidates = list
              /\ StaticChooseReplicas(list, TRUE, payload, request_id)) =>
                /\ \E i \in 1..Len(list) :
                      /\ i = (md5_int(payload_str(payload, request_id)) % Len(list)) + 1
                      /\ static_call'.result = Returned(<< <<list[i]>> >>)
                /\ (/\ static_call.op = "choose_replicas"
                    /\ static_call.has_request
                    /\ static_call.candidates = list
                    /\ static_call.payload = payload)
                      => static_call'.result = static_call.result
       /\ \A payload \in StaticPayloads, request_id \in RequestIds :
             (/\ static_call'.op = "choose_replica_for_request"
              /\ StaticChooseReplicaForRequest(payload, request_id)
              /\ static_call.op = "choose_replica_for_request"
              /\ static_call.candidates = static_replica_list
              /\ static_call.payload = payload)
                => static_call'.result = static_call.result]_vars

\* C17: choose_replicas of the static-hash router does not fail on degenerate
\* inputs: with an empty candidate list it returns [[]], and with no pending
\* request it returns [candidates].
C17_DegenerateInputs ==
    [][\A list \in ReplicaLists, has_request \in BOOLEAN, payload \in StaticPayloads,
          request_id \in RequestIds :
          (/\ static_call'.op = "choose_replicas"
           /\ static_call'.has_request = has_request
           /\ static_call'.candidates = list
           /\ StaticChooseReplicas(list, has_request, payload, request_id)) =>
             /\ static_call'.result.raised = ""
             /\ list = <<>> => static_call'.result.value = << <<>> >>
             /\ (list # <<>> /\ ~has_request) => static_call'.result.value = <<list>>]_vars

\* The chat payloads (a dict, or a tuple whose first element is the dict) with a
\* messages list, and what the claims below read from them.
IsChat(payload) == payload.form \in {"dict", "tuple"} /\ "messages" \in DOMAIN payload
SystemMessages(messages) ==
    SelectSeq(messages, LAMBDA m : IsDict(m) /\ Get(m, "role") = "system")
UserContents(messages) ==
    LET users == SelectSeq(messages, LAMBDA m : IsDict(m) /\ Get(m, "role") = "user")
    IN  [i \in 1..Len(users) |-> Get(users[i], "content")]
FirstUsers(messages, n) ==
    SubSeq(UserContents(messages), 1,
           IF n < Len(UserContents(messages)) THEN n ELSE Len(UserContents(messages)))

\* C18: for a chat payload with (one) system message of non-empty content and
\* at least one user message, and N >= 1, the key is 'system:<content>' followed
\* by 'user_i:<content>' for exactly the first min(N, number of user messages)
\* user messages in document order, joined by '|'.
C18_ChatKey ==
    (/\ key_call.pc = "done"
     /\ IsChat(key_call.payload)
     /\ key_call.N >= 1
     /\ Len(SystemMessages(key_call.payload.messages)) = 1
     /\ Get(SystemMessages(key_call.payload.messages)[1], "content") # ""
     /\ Len(UserContents(key_call.payload.messages)) >= 1)
        => key_call.result =
              [kind |-> "key",
               key |-> Join(<<"system:"
                                \o Get(SystemMessages(key_call.payload.messages)[1], "content")>>
                            \o UserComponents(FirstUsers(key_call.payload.messages,
                                                         key_call.N)))]

\* C19: with max_user_messages_for_cache = 0 the key of a chat payload with
\* system and user messages is exactly 'system:<content>'.
C19_ZeroUserMessages ==
    (/\ key_call.pc = "done"
     /\ IsChat(key_call.payload)
     /\ key_call.N = 0
     /\ Len(SystemMessages(key_call.payload.messages)) = 1
     /\ Get(SystemMessages(key_call.payload.messages)[1], "content") # ""
     /\ Len(UserContents(key_call.payload.messages)) >= 1)
        => key_call.result =
              [kind |-> "key",
               key |-> "system:"
                          \o Get(SystemMessages(key_call.payload.messages)[1], "content")]

\* C20: a system message whose content is missing is captured as the empty
\* string, so the key contains the component 'system:' (here: the system message
\* stands first and N >= 1, so the key is 'system:' followed by the first
\* min(N, number of user messages) user components); a message without a role
\* contributes nothing.
C20_MissingContent ==
    (/\ key_call.pc = "done"
     /\ IsChat(key_call.payload)
     /\ key_call.N >= 1
     /\ Len(key_call.payload.messages) >= 1
     /\ key_call.payload.messages[1] = [role |-> "system"]
     /\ Len(SystemMessages(key_call.payload.messages)) = 1
     /\ Len(UserContents(key_call.payload.messages)) >= 1)
        => key_call.result =
              [kind |-> "key",
               key |-> Join(<<"system:">>
                            \o UserComponents(FirstUsers(key_call.payload.messages,
                                                         key_call.N)))]

\* C15: in every reachable router state a routing decision completes without
\* raising: with no replicas or an empty ring it returns the empty result,
\* otherwise (also when every replica is over the threshold) a replica that is
\* in the replica map.
C15_RoutingNeverRaises ==
    \A key \in CacheKeys :
        choose_replica_for_request(key) \in
            IF replicas = {} \/ sorted_hashes = <<>> THEN {"None"} ELSE replicas

\* C21: the fallbacks of the cache key: a falsy payload (None, empty list, empty
\* dict) yields str(request_id); a payload that is neither a dict nor a non-empty
\* list/tuple yields str(payload); a dict payload from which neither a system
\* nor a user message is captured (no messages field, empty messages, only
\* assistant messages) yields str(payload) and not the request id; an exception
\* during extraction yields str(request_id).
C21_Fallbacks ==
    key_call.pc = "done" =>
       /\ Falsy(key_call.payload)
             => key_call.result = [kind |-> "str(request_id)", key |-> key_call.request_id]
       /\ key_call.payload.form = "str" => key_call.result.kind = "str(payload)"
       /\ (/\ key_call.payload.form = "dict"
           /\ \/ "messages" \notin DOMAIN key_call.payload
              \/ /\ SystemMessages(key_call.payload.messages) = <<>>
                 /\ UserContents(key_call.payload.messages) = <<>>)
             => key_call.result.kind = "str(payload)"
       /\ key_call.payload.form = "tuple_of_str"
             => key_call.result = [kind |-> "str(request_id)", key |-> key_call.request_id]

\* The key of a dict whose messages are all assistant messages has been
\* extracted and is str(payload).
C21_Witness ==
    /\ key_call.pc = "done"
    /\ key_call.payload = [form |-> "dict",
                           messages |-> <<[role |-> "assistant", content |-> "z"],
                                          [role |-> "assistant", content |-> "z"]>>]
    /\ key_call.result.kind = "str(payload)"

\* C22: two chat payloads that have the same system content and the same first
\* N user-message contents produce the same cache key, whatever their assistant
\* messages and their messages after the N-th user message are (here: N >= 1,
\* the payload whose key was extracted, with one system message of non-empty
\* content, and every other payload with one system message of the same content
\* and the same first N user contents).
C22_SameContextSameKey ==
    (/\ key_call.pc = "done"
     /\ IsChat(key_call.payload)
     /\ key_call.N >= 1
     /\ Len(SystemMessages(key_call.payload.messages)) = 1
     /\ Get(SystemMessages(key_call.payload.messages)[1], "content") # "")
        => \A other \in KeyPayloads :
              (/\ IsChat(other)
               /\ Len(SystemMessages(other.messages)) = 1
               /\ Get(SystemMessages(other.messages)[1], "content")
                     = Get(SystemMessages(key_call.payload.messages)[1], "content")
               /\ FirstUsers(other.messages, key_call.N)
                     = FirstUsers(key_call.payload.messages, key_call.N))
                 => extract_cache_key(other, key_call.request_id, key_call.N)
                       = key_call.result

\* C23: port leasing is cross-process safe: no port has been returned to two
\* distinct live processes, and a lease written by one process is not lost
\* through another process's call: every port returned to a live process is in
\* the record file under that process's pid, except while the holder of the
\* lock is between truncating the record file and writing it (lines 54-55).
C23_CrossProcessSafe ==
    /\ \A p, q \in Pids :
          (p # q /\ port_proc[p].alive /\ port_proc[q].alive)
             => port_proc[p].returned \cap port_proc[q].returned = {}
    /\ (\A q \in Pids : port_proc[q].pc # "dump") =>
          \A p \in Pids : \A port \in port_proc[p].returned :
             port_proc[p].alive
                => port_file.exists /\ port_file.allocated_ports[port] = p

\* C24: update_replicas called with the same set of replicas as the router
\* holds is a no-op on the ring: the sorted points and the point-to-replica dict
\* are unchanged, in every ring state reachable by update_replicas and
\* on_replica_actor_died (lists that repeat an id included).
C24_SameSetNoOp ==
    [][\A list \in ReplicaLists :
          (Range(list) = replicas /\ UpdateReplicas(list))
             => /\ sorted_hashes' = sorted_hashes
                /\ hash_to_replica_id' = hash_to_replica_id
                /\ replicas' = replicas]_vars

\* A ring with the points of two replicas, reached after an update with a list
\* that names a replica twice: every point has its entry in the dict and one
\* replica has more than VirtualNodes points.
C24_Witness ==
    /\ Cardinality(replicas) = 2
    /\ Len(sorted_hashes) > VirtualNodes * Cardinality(replicas)
    /\ Range(sorted_hashes) = DOMAIN hash_to_replica_id
    /\ {hash_to_replica_id[h] : h \in DOMAIN hash_to_replica_id} = replicas

\* C25: recycling never drops a request: an engine is not torn down (its engine
\* object deleted) and not removed from the instance map while a call is in
\* flight on it, and a dispatched call is never placed on the engine whose
\* recycle procedure has started.
C25_RecyclingDropsNoRequest ==
    [][/\ \A e \in EngineIds :
             ((has_engine[e] /\ ~has_engine'[e]) \/ (e \in instances /\ e \notin instances'))
                => active_requests[e] = 0
       /\ \A r \in Requests :
             (mon_pc = "recycling" /\ pc[r] = "ready" /\ pc'[r] = "serving")
                => req_inst'[r] # mon_cur]_vars

\* C26: dispatch selects the serving engine by stage preference: a STAGE2_ACTIVE
\* engine with the least active_requests if one exists; otherwise a
\* STAGE2_COOLDOWN engine with the least active_requests; otherwise a
\* STAGE1_READY engine, activated before use.  A standby is not touched while an
\* ACTIVE or COOLDOWN engine exists, and an UNINITIALIZED or ERROR engine is
\* never selected.  The engine a call selected is the one whose last_request_at
\* the call has written or on which the call is in flight.
C26_InStage(s) == {e \in instances : stage[e] = s}
C26_Least(e, S) == e \in S /\ \A f \in S : active_requests[e] <= active_requests[f]
C26_StagePreference ==
    [][\A r \in Requests :
          (pc[r] = "ready" /\ pc'[r] # "ready") =>
             \A e \in EngineIds :
                /\ stage'[e] # stage[e] =>
                      /\ stage[e] = STAGE1_READY
                      /\ C26_InStage(STAGE2_ACTIVE) = {}
                      /\ C26_InStage(STAGE2_COOLDOWN) = {}
                /\ (\/ last_request_at'[e] # last_request_at[e]
                    \/ pc'[r] = "serving" /\ req_inst'[r] = e) =>
                      /\ e \in instances
                      /\ stage'[e] \notin {UNINITIALIZED, ERROR}
                      /\ IF C26_InStage(STAGE2_ACTIVE) # {}
                         THEN C26_Least(e, C26_InStage(STAGE2_ACTIVE))
                         ELSE IF C26_InStage(STAGE2_COOLDOWN) # {}
                         THEN C26_Least(e, C26_InStage(STAGE2_COOLDOWN))
                         ELSE stage[e] = STAGE1_READY /\ stage'[e] = STAGE2_ACTIVE]_vars

\* A call is in flight on an engine of the instance map that is in cooldown: the
\* engine was in cooldown when the call selected it, since an engine with a call
\* in flight is not put into cooldown.
C26_Witness ==
    \E r \in Requests :
        /\ pc[r] = "serving" /\ req_inst[r] \in instances
        /\ stage[req_inst[r]] = STAGE2_COOLDOWN

\* C27: the lifecycle loop moves an engine to STAGE2_COOLDOWN exactly when the
\* engine is STAGE2_ACTIVE, has no call in flight and its last activity, the
\* later of last_request_at and stage2_completed_at, is more than cooldown_delay
\* ago: no other step moves an engine into cooldown, a step that does finds
\* these conditions and records the time, and every iteration of the loop
\* (MonitorTick) that finds them on an engine of the instance map moves that
\* engine in the same step.
C27_LastActivity(e) ==
    IF last_request_at[e] > stage2_completed_at[e]
    THEN last_request_at[e] ELSE stage2_completed_at[e]
C27_Idle(e) ==
    /\ stage[e] = STAGE2_ACTIVE
    /\ active_requests[e] = 0
    /\ C27_LastActivity(e) # NoTime
    /\ now - C27_LastActivity(e) > cooldown_delay
C27_CooldownExactlyWhenIdle ==
    [][\A e \in EngineIds :
          /\ (stage[e] # STAGE2_COOLDOWN /\ stage'[e] = STAGE2_COOLDOWN)
                => /\ C27_Idle(e)
                   /\ cooldown_start_time'[e] = now
                   /\ pc' = pc
          /\ (MonitorTick /\ e \in instances /\ C27_Idle(e))
                => /\ stage'[e] = STAGE2_COOLDOWN
                   /\ cooldown_start_time'[e] = now]_vars

\* An engine that served a call after its activation has been put into cooldown.
C27_Witness ==
    \E e \in instances :
        /\ stage[e] = STAGE2_COOLDOWN
        /\ last_request_at[e] > stage2_completed_at[e]
        /\ cooldown_start_time[e] - last_request_at[e] > cooldown_delay

\* C28: the lifecycle loop starts the recycle of an engine only when the engine
\* is STAGE2_COOLDOWN, has no call in flight and its cooldown began more than
\* recycle_delay ago; only such an engine leaves the instance map; and each
\* recycle (the recycled engine has left the map) is followed, in the same
\* iteration of the loop, by a fresh engine in the instance map that is
\* STAGE1_READY and whose gpu_id is the slot the recycled engine occupied.
C28_RecycleThenStandby ==
    [][/\ (mon_pc' = "recycling" /\ (mon_pc = "sleep" \/ mon_cur' # mon_cur))
             => /\ mon_cur' \in instances
                /\ stage[mon_cur'] = STAGE2_COOLDOWN
                /\ active_requests[mon_cur'] = 0
                /\ cooldown_start_time[mon_cur'] # NoTime
                /\ now - cooldown_start_time[mon_cur'] > recycle_delay
       /\ \A e \in instances :
             e \notin instances'
                => /\ mon_pc = "recycling" /\ mon_cur = e
                   /\ stage[e] = STAGE2_COOLDOWN
       /\ \A s1ok \in BOOLEAN :
             RecycleFinish(TRUE, s1ok)
                => \E f \in instances' \ instances :
                      /\ f = instance_counter + 1
                      /\ stage'[f] = STAGE1_READY
                      /\ gpu_id'[f] = gpu_id[mon_cur]]_vars

\* C29: an engine of the instance map that is in ERROR is force-recycled by the
\* lifecycle loop: it leaves the instance map; and a tick of the loop that finds
\* an engine in ERROR still handles every other engine, putting those that are
\* idle past cooldown_delay into cooldown.
C29_ErrorEngineRecycled ==
    /\ \A e \in EngineIds :
          (e \in instances /\ stage[e] = ERROR) ~> (e \notin instances)
    /\ [][\A e \in instances :
             (stage[e] = ERROR /\ MonitorTick)
                => \A f \in instances \ {e} :
                      C27_Idle(f) => stage'[f] = STAGE2_COOLDOWN]_vars

\* C30: an engine becomes STAGE2_ACTIVE only from STAGE1_READY and only in a
\* step that dispatches a request which found no STAGE2_ACTIVE and no
\* STAGE2_COOLDOWN engine in the instance map; no other step activates an
\* engine.
C30_ActivationOnlyByRequest ==
    [][\A e \in EngineIds :
          (stage[e] # STAGE2_ACTIVE /\ stage'[e] = STAGE2_ACTIVE)
             => /\ stage[e] = STAGE1_READY
                /\ e \in instances
                /\ \E r \in Requests : pc[r] = "ready" /\ pc'[r] # "ready"
                /\ \A f \in instances :
                      stage[f] \notin {STAGE2_ACTIVE, STAGE2_COOLDOWN}]_vars

\* C31: after any sequence of update_replicas and on_replica_actor_died calls
\* the ring is consistent: _sorted_hashes is in non-decreasing order, every value
\* in it is a key of _hash_to_replica_id, every key of _hash_to_replica_id occurs
\* in it, and every replica id stored in _hash_to_replica_id is in the replica
\* map.
C31_RingConsistent ==
    /\ \A i, j \in 1..Len(sorted_hashes) : i <= j => sorted_hashes[i] <= sorted_hashes[j]
    /\ \A i \in 1..Len(sorted_hashes) : sorted_hashes[i] \in DOMAIN hash_to_replica_id
    /\ \A h \in DOMAIN hash_to_replica_id :
          /\ \E i \in 1..Len(sorted_hashes) : sorted_hashes[i] = h
          /\ hash_to_replica_id[h] \in replicas

\* C32: after update_replicas(new_list), whatever the router state before and
\* whatever the list (a replica may be named more than once), the replica map
\* holds exactly the ids of the list, the replicas that own ring points are
\* exactly those ids, and _sorted_hashes holds exactly VirtualNodes entries per
\* replica.
C32_UpdateReconciles ==
    [][\A list \in ReplicaLists :
          UpdateReplicas(list)
             => /\ replicas' = Range(list)
                /\ {hash_to_replica_id'[h] : h \in DOMAIN hash_to_replica_id'} = Range(list)
                /\ Len(sorted_hashes') = VirtualNodes * Cardinality(Range(list))
                /\ \A id \in Range(list) :
                      Cardinality({i \in 1..Len(sorted_hashes') :
                                      /\ sorted_hashes'[i] \in DOMAIN hash_to_replica_id'
                                      /\ hash_to_replica_id'[sorted_hashes'[i]] = id})
                         = VirtualNodes]_vars

\* C33: the ring walk of a routing decision ends within one full cycle over
\* _sorted_hashes or once every replica of the map has been visited, whichever
\* comes first, also when a replica of the map owns no point of the ring: no
\* decision is left with its loop condition still true after it has seen every
\* point.
C33_WalkEndsWithinOneCycle ==
    route_call.n < WalkCap

\* C34: within one routing decision the load snapshot, the threshold (with the
\* replica count it divides by) and the candidate selection are one atomic read:
\* whatever on_new_queue_len_info, on_request_completed,
\* on_replica_actor_unavailable, on_replica_actor_died or update_replicas does
\* on another thread after the snapshot, the decision returns what it returns
\* when nothing else runs before it ends.
C34_DecisionIsOneAtomicRead ==
    [][(route_call.atomic # "none" /\ route_call'.pc = "idle")
          => route_result' = route_call.atomic]_vars

\* C35: when the messages list of a chat payload holds several system messages
\* and the last of them has a non-empty content, the system component of the
\* cache key is the content of that last system message, wherever it stands
\* relative to the user messages: the key is 'system:<that content>' followed by
\* the components of some first user messages.
C35_LastSystemMessageWins ==
    (/\ key_call.pc = "done"
     /\ IsChat(key_call.payload)
     /\ Len(SystemMessages(key_call.payload.messages)) >= 2
     /\ Get(SystemMessages(key_call.payload.messages)
               [Len(SystemMessages(key_call.payload.messages))], "content") # "")
        => LET systems == SystemMessages(key_call.payload.messages)
               users == UserContents(key_call.payload.messages)
           IN  \E k \in 0..Len(users) :
                  key_call.result =
                     [kind |-> "key",
                      key |-> Join(<<"system:" \o Get(systems[Len(systems)], "content")>>
                                   \o UserComponents(SubSeq(users, 1, k)))]

\* C36: every call of get_available_port that returns a port leaves the record
\* file free of entries whose pid no longer exists and holding a port of the
\* caller mapped to the caller's pid: the pruned record is written before the
\* lock is released.
C36_RecordPrunedAndWritten ==
    [][\A pid \in Pids :
          (/\ port_proc[pid].pc = "unlock"
           /\ port_proc'[pid].pc = "idle"
           /\ port_proc'[pid].last = "returned")
             => /\ port_file'.exists
                /\ \A port \in Ports :
                      port_file'.allocated_ports[port] # NoPid
                         => port_proc'[port_file'.allocated_ports[port]].alive
                /\ port_file'.allocated_ports[port_proc[pid].port] = pid
                /\ port_lock.holder = pid]_vars

\* C37: every engine of the instance map that is in STAGE2_COOLDOWN has its
\* cooldown start set, to the time at which it was marked cooldown: the step
\* that puts an engine into cooldown records the current time, and the record
\* does not change while the engine stays in cooldown.
C37_CooldownStartAlwaysSet ==
    /\ [](\A e \in instances :
             stage[e] = STAGE2_COOLDOWN => cooldown_start_time[e] # NoTime)
    /\ [][\A e \in EngineIds :
             /\ (stage[e] # STAGE2_COOLDOWN /\ stage'[e] = STAGE2_COOLDOWN)
                   => cooldown_start_time'[e] = now
             /\ stage[e] = STAGE2_COOLDOWN
                   => cooldown_start_time'[e] = cooldown_start_time[e]]_vars

\* An engine of the instance map is in cooldown and the clock has moved on since
\* it was marked.
C37_Witness ==
    \E e \in instances :
        /\ stage[e] = STAGE2_COOLDOWN
        /\ cooldown_start_time[e] # NoTime
        /\ cooldown_start_time[e] < now

\* C38: the GPU allocation map and the instance map agree in every reachable
\* state: every slot entry that is not empty names an engine of the instance map
\* whose gpu_id is that slot, and every engine of the instance map stands on a
\* slot whose entry is not empty.
C38_AllocationMatchesInstances ==
    /\ \A g \in Slots :
          gpu_allocation[g] # NoEngine
            => (gpu_allocation[g] \in instances /\ gpu_id[gpu_allocation[g]] = g)
    /\ \A e \in instances :
          gpu_id[e] \in Slots /\ gpu_allocation[gpu_id[e]] # NoEngine

\* No request is in flight or waiting to be collected.
C39_Quiet == \A r \in Requests : pc[r] = "ready"

\* The recycle delay of a cooldown engine has elapsed and nothing runs on it.
C39_RecycleDue(e) ==
    /\ stage[e] = STAGE2_COOLDOWN
    /\ active_requests[e] = 0
    /\ now - cooldown_start_time[e] > recycle_delay

\* The instance map holds an engine that a request can be dispatched to.
C39_Servable ==
    /\ \A e \in instances : has_engine[e]
    /\ \E e \in instances :
          stage[e] \in {STAGE1_READY, STAGE2_ACTIVE, STAGE2_COOLDOWN}

\* C39: under a fair lifecycle loop, from a state after which no request
\* arrives, an idle STAGE2_ACTIVE engine eventually enters STAGE2_COOLDOWN, a
\* cooldown engine whose recycle delay has elapsed eventually leaves the instance
\* map and a STAGE1_READY engine eventually stands in its place; and a pool that
\* can serve a request is always able to serve one again later.
C39_IdleEngineIsReplaced ==
    /\ \A e \in EngineIds :
          [](((e \in instances /\ C27_Idle(e)) /\ []C39_Quiet)
                => <>(stage[e] = STAGE2_COOLDOWN))
    /\ \A e \in EngineIds :
          [](((e \in instances /\ C39_RecycleDue(e)) /\ []C39_Quiet)
                => <>(e \notin instances))
    /\ \A e \in EngineIds :
          [](((e \in instances /\ C39_RecycleDue(e)) /\ []C39_Quiet)
                => <>(\E s \in instances : stage[s] = STAGE1_READY))
    /\ [](C39_Servable => []<>C39_Servable)

\* C40: a call of get_available_port fails only when no port of the range is
\* free, never because another process holds the lock: a call that ends without
\* returning a port ends with RuntimeError; RuntimeError is raised only in a state
\* where every port is bound or recorded for another live process; and a process
\* that is not inside the locked section of a call does not hold the lock.
C40_ContentionNeverFails ==
    /\ [][\A pid \in Pids :
             (/\ port_proc[pid].pc \notin {"idle", "exited"}
              /\ port_proc'[pid].pc = "idle"
              /\ port_proc'[pid].last # "returned")
                => port_proc'[pid].last = "RuntimeError"]_vars
    /\ [][\A pid \in Pids :
             (/\ port_proc[pid].pc = "scan"
              /\ port_proc'[pid].pc = "unlock"
              /\ port_proc'[pid].port = 0)
                => \A port \in Ports :
                      \/ ~is_port_available(port)
                      \/ /\ port_file.exists
                         /\ port_file.allocated_ports[port] \notin {NoPid, pid}
                         /\ port_proc[port_file.allocated_ports[port]].alive]_vars
    /\ [](\A pid \in Pids :
             port_lock.holder = pid
                => port_proc[pid].pc \in {"load", "prune", "scan", "write", "dump", "unlock"})

====
